---- MODULE Spec2Model ----
\* Control plane of the Mayastor CSI provisioner (moac): the registry's pool
\* selection, the Volume reconciler ensure() and the CSI controller calls
\* CreateVolume / DeleteVolume that drive it.
EXTENDS Integers, Sequences, FiniteSets, TLC

VARIABLES
  pools,      \* registry: pool id -> [node, state, capacity, used, replicas]
  chosen,     \* the last choosePools call: its inputs and the returned list
  vol,        \* the Volume object: its spec fields and its size
  replicas,   \* Volume.replicas in Object.values order: [uuid, node, pool, share, state]
  nexus,      \* Volume.nexus: [exists, node, children, published]
  lock,       \* holder of the per-uuid lock of the volume manager (0: free)
  reqs,       \* per request: where its ensureVolume / ensure() is suspended
  destroys,   \* nodes whose replica has a destroy RPC in flight
  failures,   \* RPC failures injected so far
  settled,    \* the state is the one left by the last successful ensure()
  del,        \* the DeleteVolume call: where it is suspended
  ready,      \* CsiServer.ready
  call,       \* the last CSI request served and its reply, and how many were served
  listContexts,       \* CsiServer.listContexts: context id -> volumes still to return
  nextListContextId,  \* CsiServer.nextListContextId
  otherNexus, \* the nexuses of the other volumes, in the order getNexus() returns them
  listings,   \* per client: the ListVolumes listing it follows
  updated,    \* the last Volume.update call: the volume, the spec and the outcome
  poolObj,    \* a Pool object of a node: properties, replicas, binding, call under way
  emitted,    \* the events the node of the pool emitted during the last pool operation
  registry,   \* Registry: the nodes by name, the node objects made, those listened to
  relayed,    \* the last event a node object emitted and whether the registry re-emitted it
  vdestroy,   \* a call of Volume.destroy: its position, the calls issued and their answers
  vobj        \* a Volume object under nexus events: its nexus, state and reason

poolVars == <<pools, chosen>>
volVars == <<vol, replicas, nexus, lock, reqs, destroys, failures, settled>>
listVars == <<listContexts, nextListContextId, otherNexus, listings>>
unitVars == <<updated, poolObj, emitted, registry, relayed, vdestroy, vobj>>
csiVars == <<ready, call, listVars, unitVars>>
coreVars == <<pools, chosen, vol, replicas, nexus, lock, reqs, destroys, failures, settled, del,
              ready, call, listVars, vobj>>
\* all but vobj
otherVars == <<pools, chosen, vol, replicas, nexus, lock, reqs, destroys, failures, settled, del,
               ready, call, listVars, updated, poolObj, emitted, registry, relayed, vdestroy>>
vars == <<pools, chosen, vol, replicas, nexus, lock, reqs, destroys, failures, settled, del, csiVars>>

\* ------------------------------------------------------------------ bounds
MaxNodeObjs == 3   \* Node objects the registry constructs
MaxBytes == 3      \* pool capacities and requested sizes range over 0..MaxBytes
MaxPoolReplicas == 1  \* replicas of other volumes a pool may already hold

\* ------------------------------------------------------------- registry
Nodes == {"n1", "n2", "n3"}
NodeSeq == <<"n1", "n2", "n3">>
PoolIds == {"p1", "p2", "p3"}
PoolIdSeq == <<"p1", "p2", "p3">>
PoolStates == {"POOL_ONLINE", "POOL_DEGRADED", "POOL_FAULTED", "POOL_OFFLINE"}

RECURSIVE SeqToSet(_)
SeqToSet(s) == IF s = <<>> THEN {} ELSE {Head(s)} \cup SeqToSet(Tail(s))

\* Pool.freeBytes(): capacity - used
freeBytes(p) == pools[p].capacity - pools[p].used

\* Pool.isAccessible(): ONLINE or DEGRADED
isAccessible(p) == pools[p].state \in {"POOL_ONLINE", "POOL_DEGRADED"}

\* Registry.getPool(): the pools of every node, node after node
getPool ==
  LET OnNode(n) == SelectSeq(PoolIdSeq, LAMBDA p : p \in DOMAIN pools /\ pools[p].node = n)
  IN OnNode(NodeSeq[1]) \o OnNode(NodeSeq[2]) \o OnNode(NodeSeq[3])

\* choosePools step 2: the filter
PoolSuitable(p, requiredBytes, mustNodes) ==
  /\ isAccessible(p)
  /\ freeBytes(p) >= requiredBytes
  /\ (mustNodes = {} \/ pools[p].node \in mustNodes)

\* a mutant of the comparator: the state decides before the preferred nodes
PoolBeforeStateFirst(a, b, shouldNodes) ==
  LET aPref == pools[a].node \in shouldNodes
      bPref == pools[b].node \in shouldNodes
      aOn == pools[a].state = "POOL_ONLINE"
      bOn == pools[b].state = "POOL_ONLINE"
  IN IF aOn # bOn THEN aOn
     ELSE IF aPref # bPref THEN aPref
     ELSE IF pools[a].replicas # pools[b].replicas
          THEN pools[a].replicas < pools[b].replicas
     ELSE freeBytes(a) > freeBytes(b)

\* a mutant of the comparator: free space decides before the replica count
PoolBeforeFreeFirst(a, b, shouldNodes) ==
  LET aPref == pools[a].node \in shouldNodes
      bPref == pools[b].node \in shouldNodes
      aOn == pools[a].state = "POOL_ONLINE"
      bOn == pools[b].state = "POOL_ONLINE"
  IN IF aPref # bPref THEN aPref
     ELSE IF aOn # bOn THEN aOn
     ELSE IF freeBytes(a) # freeBytes(b) THEN freeBytes(a) > freeBytes(b)
     ELSE pools[a].replicas < pools[b].replicas

\* choosePools step 3: the comparator of the sort; TRUE when a sorts strictly
\* before b. A pool on a preferred node wins first (the registry test "should
\* prefer pool on node preferred by user"), then ONLINE, then fewer replicas,
\* then more free space.
PoolBefore(a, b, shouldNodes) ==
  LET aPref == pools[a].node \in shouldNodes
      bPref == pools[b].node \in shouldNodes
      aOn == pools[a].state = "POOL_ONLINE"
      bOn == pools[b].state = "POOL_ONLINE"
  IN IF aPref # bPref THEN aPref
     ELSE IF aOn # bOn THEN aOn
     ELSE IF pools[a].replicas # pools[b].replicas
          THEN pools[a].replicas < pools[b].replicas
     ELSE freeBytes(a) > freeBytes(b)

\* stable insertion of p into a sorted list: before the first strictly worse one
RECURSIVE InsertPool(_, _, _)
InsertPool(sorted, p, shouldNodes) ==
  IF sorted = <<>> THEN <<p>>
  ELSE IF PoolBefore(p, Head(sorted), shouldNodes) THEN <<p>> \o sorted
  ELSE <<Head(sorted)>> \o InsertPool(Tail(sorted), p, shouldNodes)

\* Array.sort with the comparator (stable)
RECURSIVE SortPools(_, _)
SortPools(list, shouldNodes) ==
  IF list = <<>> THEN <<>>
  ELSE InsertPool(SortPools(SubSeq(list, 1, Len(list) - 1), shouldNodes),
                  list[Len(list)], shouldNodes)

\* a mutant of the last step: every sorted pool is kept
OnePerNodeKeepAll(sorted, seen) == sorted

\* choosePools step 4: only one pool from each node, the first in sort order
RECURSIVE OnePerNode(_, _)
OnePerNode(sorted, seen) ==
  IF sorted = <<>> THEN <<>>
  ELSE IF pools[Head(sorted)].node \in seen THEN OnePerNode(Tail(sorted), seen)
  ELSE <<Head(sorted)>> \o OnePerNode(Tail(sorted), seen \cup {pools[Head(sorted)].node})

\* Registry.choosePools(requiredBytes, mustNodes, shouldNodes)
choosePools(requiredBytes, mustNodes, shouldNodes) ==
  OnePerNode(
    SortPools(SelectSeq(getPool, LAMBDA p : PoolSuitable(p, requiredBytes, mustNodes)),
              shouldNodes),
    {})

\* no choosePools call recorded
NoCall == [called |-> FALSE, requiredBytes |-> 0, mustNodes |-> {}, shouldNodes |-> {},
           result |-> <<>>]

\* ------------------------------------------------------- volume: data
MaxCount == 2      \* replica counts requested range over 1..MaxCount
MaxRequests == 2   \* CreateVolume / reconcile requests accepted
MaxFailures == 1   \* RPC failures injected
MaxDiscovered == 2 \* replicas of the volume found on the nodes at start-up
MaxDeletes == 2    \* DeleteVolume requests
MaxCalls == 2      \* CSI requests served, the ones of CreateVolume and DeleteVolume apart
MaxClients == 2    \* clients that follow a ListVolumes listing
MaxOthers == 2     \* nexuses of other volumes
MaxContextId == 4  \* paging contexts of ListVolumes allocated
MaxPage == 2       \* maxEntries of a ListVolumes request
MaxNexusObjs == 2  \* nexus objects the nodes make for the volume
MaxListCalls == 2  \* ListVolumes requests of a client that sends any token

VolUuid == "u"
ReqIds == 1..MaxRequests
ListClients == 1..MaxClients
Shares == {"REPLICA_NONE", "REPLICA_NVMF", "REPLICA_ISCSI"}

\* Access URI a storage node reports for a replica: bdev:///<uuid> when not
\* shared, nvmf://<host>/<uuid>, iscsi://<host>/<uuid>
UriOf(node, share) ==
  IF share = "REPLICA_NONE" THEN <<"bdev", "">>
  ELSE IF share = "REPLICA_NVMF" THEN <<"nvmf", node>>
  ELSE <<"iscsi", node>>

Uri(rep) == UriOf(rep.node, rep.share)

\* the URIs in the order of Array.sort on strings
UriSeq == <<UriOf("", "REPLICA_NONE"),
            UriOf("n1", "REPLICA_ISCSI"), UriOf("n2", "REPLICA_ISCSI"), UriOf("n3", "REPLICA_ISCSI"),
            UriOf("n1", "REPLICA_NVMF"), UriOf("n2", "REPLICA_NVMF"), UriOf("n3", "REPLICA_NVMF")>>
Uris == SeqToSet(UriSeq)
UriRank(u) == CHOOSE i \in 1..Len(UriSeq) : UriSeq[i] = u

\* Array.sort of a list of URIs
RECURSIVE InsertUri(_, _)
InsertUri(sorted, u) ==
  IF sorted = <<>> THEN <<u>>
  ELSE IF UriRank(u) < UriRank(Head(sorted)) THEN <<u>> \o sorted
  ELSE <<Head(sorted)>> \o InsertUri(Tail(sorted), u)

RECURSIVE SortUris(_)
SortUris(list) ==
  IF list = <<>> THEN <<>>
  ELSE InsertUri(SortUris(SubSeq(list, 1, Len(list) - 1)), list[Len(list)])

\* nexus.children.map(ch => ch.uri).sort()
SortedChildren(children) == SelectSeq(UriSeq, LAMBDA u : u \in children)

\* Array.indexOf: 0 when absent
RECURSIVE IndexOf(_, _)
IndexOf(list, x) ==
  IF list = <<>> THEN 0
  ELSE IF Head(list) = x THEN 1
  ELSE IF IndexOf(Tail(list), x) = 0 THEN 0 ELSE 1 + IndexOf(Tail(list), x)

\* Array.splice(idx, 1)
RemoveAt(list, idx) == SubSeq(list, 1, idx - 1) \o SubSeq(list, idx + 1, Len(list))

NoNexus == [exists |-> FALSE, node |-> "", children |-> {}, published |-> FALSE]

\* Volume constructor: the object before its first ensure()
NewVolume(spec) ==
  [exists |-> TRUE,
   replicaCount |-> spec.count,
   requiredNodes |-> spec.mustNodes,
   preferredNodes |-> spec.shouldNodes,
   requiredBytes |-> spec.requiredBytes,
   limitBytes |-> spec.limitBytes,
   size |-> 0]

NoVolume ==
  [exists |-> FALSE, replicaCount |-> 0, requiredNodes |-> {}, preferredNodes |-> {},
   requiredBytes |-> 0, limitBytes |-> 0, size |-> 0]

NoSpec == [count |-> 0, mustNodes |-> {}, shouldNodes |-> {}, requiredBytes |-> 0, limitBytes |-> 0]

ReplicaNodes(reps) == {reps[i].node : i \in 1..Len(reps)}
HasReplica(reps, n) == n \in ReplicaNodes(reps)
ReplicaOn(reps, n) == reps[CHOOSE i \in 1..Len(reps) : reps[i].node = n]

\* Object.values(this.replicas).find(r => r.uri == uri): 0 when there is none
RECURSIVE FindByUriFrom(_, _, _)
FindByUriFrom(reps, u, i) ==
  IF i > Len(reps) THEN 0
  ELSE IF Uri(reps[i]) = u THEN i
  ELSE FindByUriFrom(reps, u, i + 1)

FindByUri(reps, u) == FindByUriFrom(reps, u, 1)

\* Object.values(this.replicas).find(r => r.share == 'REPLICA_NONE')
FindLocalReplica(reps) == FindByUri(reps, UriOf("", "REPLICA_NONE"))

\* Volume.newReplica: attach the replica unless one is held for its node
newReplica(reps, rep) ==
  IF rep.uuid # VolUuid \/ HasReplica(reps, rep.node) THEN reps ELSE Append(reps, rep)

\* Volume.delReplica: detach the replica of the node
delReplica(reps, n) == SelectSeq(reps, LAMBDA r : r.node # n)

\* Replica.setShare, after the ShareReplica reply: share and uri are updated
setShare(reps, n, share) ==
  [i \in 1..Len(reps) |-> IF reps[i].node = n THEN [reps[i] EXCEPT !.share = share] ELSE reps[i]]

\* a score whose first criterion weighs less than the second
scoreReplicaLight(rep, v, nex) ==
  (IF v.requiredNodes # {} /\ rep.node \in v.requiredNodes THEN 4 ELSE 0)
  + (IF rep.state = "ONLINE" THEN 5 ELSE 0)
  + (IF v.preferredNodes # {} /\ rep.node \in v.preferredNodes THEN 2 ELSE 0)
  + (IF nex.exists /\ rep.node = nex.node THEN 1 ELSE 0)

\* Volume._scoreReplica
scoreReplica(rep, v, nex) ==
  (IF v.requiredNodes # {} /\ rep.node \in v.requiredNodes THEN 10 ELSE 0)
  + (IF rep.state = "ONLINE" THEN 5 ELSE 0)
  + (IF v.preferredNodes # {} /\ rep.node \in v.preferredNodes THEN 2 ELSE 0)
  + (IF nex.exists /\ rep.node = nex.node THEN 1 ELSE 0)

RECURSIVE InsertReplica(_, _, _, _)
InsertReplica(sorted, rep, v, nex) ==
  IF sorted = <<>> THEN <<rep>>
  ELSE IF scoreReplica(rep, v, nex) > scoreReplica(Head(sorted), v, nex) THEN <<rep>> \o sorted
  ELSE <<Head(sorted)>> \o InsertReplica(Tail(sorted), rep, v, nex)

\* Volume._prioritizeReplicas: the replicas, the best score first (stable sort)
RECURSIVE prioritizeReplicas(_, _, _)
prioritizeReplicas(reps, v, nex) ==
  IF reps = <<>> THEN <<>>
  ELSE InsertReplica(prioritizeReplicas(SubSeq(reps, 1, Len(reps) - 1), v, nex),
                     reps[Len(reps)], v, nex)

\* the nodes of the replicas that a list of replica objects names
NodesOfReplicas(list) == [i \in 1..Len(list) |-> list[i].node]

\* _.map(replicas, 'uri') for the replica objects of the nodes in rset
UrisOfSet(reps, rset) ==
  LET held == SelectSeq(rset, LAMBDA n : HasReplica(reps, n))
  IN [i \in 1..Len(held) |-> Uri(ReplicaOn(reps, held[i]))]

\* ----------------------------------------------- volume: ensure() frames
\* A frame is one ensureVolume call: pc names the RPC it awaits.
BlankFrame ==
  [pc |-> "new", kind |-> "none", args |-> <<>>, spec |-> NoSpec, ran |-> FALSE,
   result |-> "none",
   cands |-> <<>>, ci |-> 0, count |-> 0,
   rset |-> <<>>, nnode |-> "", si |-> 0, share |-> "",
   target |-> "", kids |-> {},
   olds |-> <<>>, news |-> <<>>, oi |-> 0, ai |-> 0,
   await |-> {}, failed |-> FALSE]

RunningPcs == {"createReplica", "setShare", "createNexus", "removeChild", "addChild", "trim"}

\* the frame without the locals of the step it leaves; replicaSet and the node
\* the shares were decided for stay until the call returns
Base(f) ==
  [BlankFrame EXCEPT !.kind = f.kind, !.args = f.args, !.spec = f.spec, !.ran = f.ran,
                     !.rset = f.rset, !.nnode = f.nnode, !.failed = f.failed]

\* the answer of a node to a call of the run: a failure is remembered
Answer(f, ok) == [f EXCEPT !.failed = @ \/ ~ok]

\* the call returns (res = "OK") or throws (an error code)
Finish(f, res) == [Base(f) EXCEPT !.pc = "done", !.result = res]

\* a mutant of the trim: every replica is destroyed
ExcessReplicasAll(reps, nex) == ReplicaNodes(reps)

\* ensure(), trim: the replicas whose uri is not among the children of the nexus
ExcessReplicas(reps, nex) ==
  {n \in ReplicaNodes(reps) : Uri(ReplicaOn(reps, n)) \notin nex.children}

\* ensure(), after _ensureNexus: issue the destroy of every excess replica
ContTrim(f, reps, nex) ==
  IF ~nex.exists THEN Finish(f, "UNKNOWN")
  ELSE IF ExcessReplicas(reps, nex) = {} THEN Finish(f, "OK")
  ELSE [Base(f) EXCEPT !.pc = "trim", !.await = ExcessReplicas(reps, nex)]

\* _ensureNexus, second loop: add the children which are not there yet
RECURSIVE AddScan(_, _, _, _)
AddScan(f, reps, nex, ai) ==
  IF ai > Len(f.news) THEN ContTrim(f, reps, nex)
  ELSE IF FindByUri(reps, f.news[ai]) # 0
       THEN [Base(f) EXCEPT !.pc = "addChild", !.news = f.news, !.ai = ai]
  ELSE AddScan(f, reps, nex, ai + 1)

\* _ensureNexus, first loop: a child is removed only through the replica that
\* has its uri
RemoveNeedsReplica(reps, uri) == FindByUri(reps, uri) # 0

\* a mutant of the first loop: a failed removal ends ensure() with an error
RECURSIVE RemoveScanFatal(_, _, _, _, _, _)
RemoveScanFatal(f, reps, nex, olds, news, oi) ==
  IF f.failed /\ oi > 1 THEN Finish(f, "INTERNAL")
  ELSE IF oi > Len(olds) THEN AddScan([f EXCEPT !.news = news], reps, nex, 1)
  ELSE IF IndexOf(news, olds[oi]) = 0
       THEN IF RemoveNeedsReplica(reps, olds[oi])
            THEN [Base(f) EXCEPT !.pc = "removeChild", !.olds = olds, !.news = news, !.oi = oi]
            ELSE RemoveScanFatal(f, reps, nex, olds, news, oi + 1)
  ELSE RemoveScanFatal(f, reps, nex, olds, RemoveAt(news, IndexOf(news, olds[oi])), oi + 1)

\* _ensureNexus, first loop: remove the children which should not be in the nexus
RECURSIVE RemoveScan(_, _, _, _, _, _)
RemoveScan(f, reps, nex, olds, news, oi) ==
  IF oi > Len(olds) THEN AddScan([f EXCEPT !.news = news], reps, nex, 1)
  ELSE IF IndexOf(news, olds[oi]) = 0
       THEN IF RemoveNeedsReplica(reps, olds[oi])
            THEN [Base(f) EXCEPT !.pc = "removeChild", !.olds = olds, !.news = news, !.oi = oi]
            ELSE RemoveScan(f, reps, nex, olds, news, oi + 1)
  ELSE RemoveScan(f, reps, nex, olds, RemoveAt(news, IndexOf(news, olds[oi])), oi + 1)

\* _ensureNexus, no nexus yet: the replica whose node gets the nexus
NexusHome(reps, rset) == FindLocalReplica(reps)

\* Volume._ensureNexus(replicaSet)
ContNexus(f, reps, nex) ==
  IF ~nex.exists
  THEN IF NexusHome(reps, f.rset) = 0 THEN Finish(f, "INTERNAL")
       ELSE [Base(f) EXCEPT !.pc = "createNexus",
                            !.target = reps[NexusHome(reps, f.rset)].node,
                            !.kids = SeqToSet(UrisOfSet(reps, f.rset))]
  ELSE RemoveScan(f, reps, nex, SortedChildren(nex.children),
                  SortUris(UrisOfSet(reps, f.rset)), 1)

\* a mutant of the share decision: the replica local to the nexus is left as it is
WantedShareRemoteOnly(rep, nnode) ==
  IF rep.node # nnode /\ rep.share = "REPLICA_NONE" THEN "REPLICA_NVMF"
  ELSE ""

\* _ensureReplicaShareProtocols: the share to set on a replica ("": none)
WantedShare(rep, nnode) ==
  IF rep.node = nnode /\ rep.share # "REPLICA_NONE" THEN "REPLICA_NONE"
  ELSE IF rep.node # nnode /\ rep.share = "REPLICA_NONE" THEN "REPLICA_NVMF"
  ELSE ""

\* _ensureReplicaShareProtocols, the loop over the ranked replicas
RECURSIVE ShareScan(_, _, _, _)
ShareScan(f, reps, nex, si) ==
  IF si > Len(f.rset) THEN ContNexus(f, reps, nex)
  ELSE IF ~HasReplica(reps, f.rset[si]) THEN Finish(f, "UNKNOWN")
  ELSE IF WantedShare(ReplicaOn(reps, f.rset[si]), f.nnode) # ""
       THEN [Base(f) EXCEPT !.pc = "setShare", !.rset = f.rset, !.nnode = f.nnode, !.si = si,
                            !.share = WantedShare(ReplicaOn(reps, f.rset[si]), f.nnode)]
  ELSE ShareScan(f, reps, nex, si + 1)

\* the ranked replicas cut to the replica count (replicaSet.splice)
RankedSet(v, reps, nex) ==
  LET ranked == prioritizeReplicas(reps, v, nex)
  IN NodesOfReplicas(SubSeq(ranked, 1, IF Len(ranked) < v.replicaCount THEN Len(ranked)
                                       ELSE v.replicaCount))

\* Volume._ensureReplicaShareProtocols, then the rest of ensure()
ContShare(f, v, reps, nex) ==
  IF reps = <<>> THEN Finish(f, "INTERNAL")
  ELSE ShareScan([Base(f) EXCEPT !.rset = RankedSet(v, reps, nex),
                                 !.nnode = IF nex.exists THEN nex.node
                                           ELSE RankedSet(v, reps, nex)[1]],
                 reps, nex, 1)

\* _createReplicas, the loop: try one pool after another until enough succeeded
\* a loop that goes through all the candidates
CreateScanAll(f, v, reps, nex, ci, count) ==
  IF ci <= Len(f.cands)
  THEN [Base(f) EXCEPT !.pc = "createReplica", !.cands = f.cands, !.ci = ci, !.count = count]
  ELSE IF count > 0 THEN Finish(f, "INTERNAL")
  ELSE ContShare(f, v, reps, nex)

CreateScan(f, v, reps, nex, ci, count) ==
  IF ci <= Len(f.cands) /\ count > 0
  THEN [Base(f) EXCEPT !.pc = "createReplica", !.cands = f.cands, !.ci = ci, !.count = count]
  ELSE IF count > 0 THEN Finish(f, "INTERNAL")
  ELSE ContShare(f, v, reps, nex)

\* a mutant of the filter: pools on nodes with a replica stay candidates
UnusedPoolsAll(list, reps) == list

\* _createReplicas: remove pools that are already used by existing replicas
UnusedPools(list, reps) ==
  SelectSeq(list, LAMBDA p : pools[p].node \notin ReplicaNodes(reps))

Candidates(v, reps) ==
  UnusedPools(choosePools(v.requiredBytes, v.requiredNodes, v.preferredNodes), reps)

RECURSIVE MinFree(_)
MinFree(list) ==
  IF list = <<>> THEN MaxBytes + 1
  ELSE IF freeBytes(Head(list)) < MinFree(Tail(list)) THEN freeBytes(Head(list))
  ELSE MinFree(Tail(list))

\* _createReplicas: the size of the volume, fixed by the first run that creates replicas
\* a size that is computed again in every run
EnsureSizeAlways(v, reps) ==
  LET missing == v.replicaCount - Len(reps)
      cap == IF v.limitBytes # 0 THEN v.limitBytes ELSE v.requiredBytes
  IN IF missing > 0 /\ Len(Candidates(v, reps)) >= missing
     THEN (IF MinFree(Candidates(v, reps)) < cap THEN MinFree(Candidates(v, reps)) ELSE cap)
     ELSE v.size

EnsureSize(v, reps) ==
  LET missing == v.replicaCount - Len(reps)
      cap == IF v.limitBytes # 0 THEN v.limitBytes ELSE v.requiredBytes
  IN IF missing > 0 /\ Len(Candidates(v, reps)) >= missing /\ v.size = 0
     THEN (IF MinFree(Candidates(v, reps)) < cap THEN MinFree(Candidates(v, reps)) ELSE cap)
     ELSE v.size

\* a mutant of _createReplicas: too few pools are not detected
EnsureStartNoCheck(f, v, reps, nex) ==
  LET missing == v.replicaCount - Len(reps)
  IN IF missing > 0
     THEN CreateScan([f EXCEPT !.cands = Candidates(v, reps)], v, reps, nex, 1, missing)
     ELSE ContShare(f, v, reps, nex)

\* Volume.ensure(), up to its first RPC
EnsureStart(f, v, reps, nex) ==
  LET missing == v.replicaCount - Len(reps)
  IN IF missing > 0
     THEN IF Len(Candidates(v, reps)) < missing THEN Finish(f, "RESOURCE_EXHAUSTED")
          ELSE CreateScan([f EXCEPT !.cands = Candidates(v, reps)], v, reps, nex, 1, missing)
     ELSE ContShare(f, v, reps, nex)

\* Volume.update(spec): the volume with the new parameters
update(v, spec) ==
  [v EXCEPT !.replicaCount = spec.count,
            !.preferredNodes = spec.shouldNodes,
            !.requiredNodes = spec.mustNodes,
            !.requiredBytes = spec.requiredBytes,
            !.limitBytes = spec.limitBytes]

\* Volume.update(spec) throws INVALID_ARGUMENT
updateRejects(v, spec) ==
  \/ v.size < spec.requiredBytes
  \/ (spec.limitBytes # 0 /\ v.size > spec.limitBytes)

\* ------------------------------------------- CSI CreateVolume arguments
AccessModes == {"SINGLE_NODE_WRITER", "MULTI_NODE_MULTI_WRITER"}

\* volumeCapabilities of a request: absent, or the access modes of the list
CapLists ==
  {[given |-> FALSE, modes |-> <<>>]} \cup
  {[given |-> TRUE, modes |-> m] :
     m \in {<<>>, <<"SINGLE_NODE_WRITER">>, <<"MULTI_NODE_MULTI_WRITER">>,
            <<"SINGLE_NODE_WRITER", "MULTI_NODE_MULTI_WRITER">>}}

\* checkCapabilities(caps): the code of the error it throws, "OK" when it returns
checkCapabilities(caps) ==
  IF ~caps.given THEN "INVALID_ARGUMENT"
  ELSE IF \E i \in 1..Len(caps.modes) : caps.modes[i] # "SINGLE_NODE_WRITER"
       THEN "INVALID_ARGUMENT"
  ELSE "OK"

\* a volume name is a sequence of pieces: PvcPiece stands for the text
\* pvc-{uuid} with the uuid of the volume, any other piece for text that PVC_RE
\* does not match
PvcPiece == "pvc-u"
Names == {<<PvcPiece>>, <<"x">>, <<"x", PvcPiece, "y">>, <<>>}

\* args.name.match(PVC_RE): the pattern is searched anywhere in the name
matchPvc(name) == \E i \in 1..Len(name) : name[i] = PvcPiece

HostKey == "kubernetes.io/hostname"
ZoneKey == "topology.kubernetes.io/zone"

\* requisite or preferred of accessibilityRequirements: one segment per entry
Segment(key, value) == [key |-> key, value |-> value]
SegLists == {<<>>, <<Segment(HostKey, "n2")>>, <<Segment(ZoneKey, "z1")>>,
             <<Segment(HostKey, "n2"), Segment(ZoneKey, "z1")>>}

\* the values of the hostname segments of a list
HostValues(segs) == {segs[i].value : i \in {j \in 1..Len(segs) : segs[j].key = HostKey}}

\* the digits, by value + 1
DigitSeq == <<"0", "1", "2", "3", "4", "5", "6", "7", "8", "9">>
DigitChars == {DigitSeq[i] : i \in 1..Len(DigitSeq)}
DigitValue(c) == (CHOOSE i \in 1..Len(DigitSeq) : DigitSeq[i] = c) - 1

\* parseInt, the digits at the head of s: [nan, n]
RECURSIVE parseDigits(_, _, _)
parseDigits(s, seen, acc) ==
  IF s # <<>> /\ Head(s) \in DigitChars
  THEN parseDigits(Tail(s), TRUE, 10 * acc + DigitValue(Head(s)))
  ELSE [nan |-> ~seen, n |-> acc]

\* parseInt(s): white space, a sign, then digits; what follows the digits is
\* ignored, and without a digit the result is NaN
RECURSIVE parseInt(_)
parseInt(s) ==
  IF s # <<>> /\ Head(s) = " " THEN parseInt(Tail(s))
  ELSE IF s # <<>> /\ Head(s) = "-"
       THEN LET d == parseDigits(Tail(s), FALSE, 0) IN [nan |-> d.nan, n |-> 0 - d.n]
  ELSE IF s # <<>> /\ Head(s) = "+" THEN parseDigits(Tail(s), FALSE, 0)
  ELSE parseDigits(s, FALSE, 0)

\* createVolume, the checks of the arguments: the code of the reply
validateCreate(args) ==
  IF args.source THEN "INVALID_ARGUMENT"
  ELSE IF ~matchPvc(args.name) THEN "INVALID_ARGUMENT"
  ELSE IF checkCapabilities(args.caps) # "OK" THEN checkCapabilities(args.caps)
  ELSE IF args.topology.given
          /\ \E i \in 1..Len(args.topology.requisite) :
               args.topology.requisite[i].key # HostKey
       THEN "INVALID_ARGUMENT"
  ELSE IF args.repl # <<>> /\ (parseInt(args.repl).nan \/ parseInt(args.repl).n <= 0)
       THEN "INVALID_ARGUMENT"
  ELSE "OK"

\* createVolume, the parameters handed to ensureVolume
createSpec(args) ==
  [count |-> IF args.repl # <<>> THEN parseInt(args.repl).n ELSE 1,
   mustNodes |-> IF args.topology.given THEN HostValues(args.topology.requisite) ELSE {},
   shouldNodes |-> IF args.topology.given THEN HostValues(args.topology.preferred) ELSE {},
   requiredBytes |-> args.requiredBytes,
   limitBytes |-> args.limitBytes]

\* --------------------------------------------------- volume: actions
\* a mutant of the lock: it is never seen as taken
LockFreeAlways == TRUE

\* the per-uuid lock of the volume manager is free
LockFree == lock = 0

\* one RPC outcome: a failure is taken from the failure budget
Outcome(ok) ==
  /\ (ok \/ failures < MaxFailures)
  /\ failures' = IF ok THEN failures ELSE failures + 1

\* the state is as the last successful ensure() left it
Settle(fr, v2, reps2, nex2) ==
  IF fr.pc = "done" /\ fr.result = "OK" /\ fr.ran THEN TRUE
  ELSE IF <<v2, reps2, nex2>> # <<vol, replicas, nexus>> THEN FALSE
  ELSE settled

\* request r moves to frame fr; the volume becomes (v2, reps2, nex2)
Apply(r, fr, v2, reps2, nex2) ==
  /\ reqs' = [reqs EXCEPT ![r] = fr]
  /\ vol' = v2
  /\ replicas' = reps2
  /\ nexus' = nex2
  /\ lock' = IF fr.pc = "done" THEN (IF lock = r THEN 0 ELSE lock)
             ELSE IF fr.pc = "waitLock" THEN lock
             ELSE r
  /\ destroys' = destroys \cup (IF fr.pc = "trim" THEN fr.await ELSE {})
  /\ settled' = Settle(fr, v2, reps2, nex2)

\* VolumeManager.ensureVolume(uuid, spec) once it holds the lock: create or
\* update the Volume, return at once when nothing is to be done, else ensure()
EnsureVolume(r, f0) ==
  IF f0.kind = "create" /\ vol.exists /\ updateRejects(vol, f0.spec)
  THEN Apply(r, Finish(f0, "INVALID_ARGUMENT"), vol, replicas, nexus)
  ELSE LET v1 == IF f0.kind = "ensure" THEN vol
                 ELSE IF vol.exists THEN update(vol, f0.spec)
                 ELSE NewVolume(f0.spec)
       IN IF f0.kind = "create" /\ v1 = vol /\ Len(replicas) = v1.replicaCount /\ nexus.exists
          THEN Apply(r, Finish(f0, "OK"), vol, replicas, nexus)
          ELSE Apply(r, EnsureStart([f0 EXCEPT !.ran = TRUE], v1, replicas, nexus),
                     [v1 EXCEPT !.size = EnsureSize(v1, replicas)], replicas, nexus)

\* the requests are taken in the order of their ids
NextRequest(r) == reqs[r].pc = "new" /\ (IF r = 1 THEN TRUE ELSE reqs[r - 1].pc # "new")

\* CsiServer.createVolume behind the checkReady wrapper: the checks of the
\* arguments, then ensureVolume(uuid, spec)
CreateVolume(r, args) ==
  LET f0 == [BlankFrame EXCEPT !.kind = "create", !.args = args]
      f1 == [f0 EXCEPT !.spec = createSpec(args)]
  IN /\ NextRequest(r)
     /\ IF ~ready THEN Apply(r, Finish(f0, "UNAVAILABLE"), vol, replicas, nexus)
        ELSE IF validateCreate(args) # "OK"
             THEN Apply(r, Finish(f0, validateCreate(args)), vol, replicas, nexus)
        ELSE IF LockFree THEN EnsureVolume(r, f1)
        ELSE Apply(r, [f1 EXCEPT !.pc = "waitLock"], vol, replicas, nexus)
  /\ UNCHANGED <<pools, chosen, failures, del, csiVars>>

\* the volume manager re-runs ensure() of an existing volume (same spec)
Reconcile(r) ==
  /\ NextRequest(r)
  /\ vol.exists
  /\ IF LockFree
     THEN EnsureVolume(r, [BlankFrame EXCEPT !.kind = "ensure"])
     ELSE Apply(r, [BlankFrame EXCEPT !.kind = "ensure", !.pc = "waitLock"],
                vol, replicas, nexus)
  /\ UNCHANGED <<pools, chosen, failures, del, csiVars>>

\* a waiting request gets the lock
LockGranted(r) ==
  /\ reqs[r].pc = "waitLock"
  /\ LockFree
  /\ EnsureVolume(r, [reqs[r] EXCEPT !.pc = "new"])
  /\ UNCHANGED <<pools, chosen, failures, del, csiVars>>

\* pool.createReplica(uuid, size) returns: CreateReplica RPC, then the
\* 'replica new' event reaches Volume.newReplica
CreateReplicaDone(r, ok) ==
  LET f == reqs[r]
      p == f.cands[f.ci]
      made == ok /\ \A i \in 1..Len(replicas) : replicas[i].pool # p
      rep == [uuid |-> VolUuid, node |-> pools[p].node, pool |-> p,
              share |-> "REPLICA_NONE", state |-> "ONLINE", size |-> vol.size]
      reps2 == IF made THEN newReplica(replicas, rep) ELSE replicas
  IN /\ f.pc = "createReplica"
     /\ Outcome(ok)
     /\ pools' = IF made THEN [pools EXCEPT ![p].replicas = @ + 1] ELSE pools
     /\ Apply(r, CreateScan(Answer(f, ok), vol, reps2, nexus, f.ci + 1,
                             IF made THEN f.count - 1 ELSE f.count),
              vol, reps2, nexus)
     /\ UNCHANGED <<chosen, del, csiVars>>

\* replica.setShare(share) returns: ShareReplica RPC
\* a setShare whose failure is only logged
SetShareDoneLogged(r, ok) ==
  LET f == reqs[r]
      n == f.rset[f.si]
      done == ok /\ HasReplica(replicas, n)
      reps2 == IF done THEN setShare(replicas, n, f.share) ELSE replicas
  IN /\ f.pc = "setShare"
     /\ Outcome(ok)
     /\ Apply(r, ShareScan(Answer(f, ok), reps2, nexus, f.si + 1), vol, reps2, nexus)
     /\ UNCHANGED <<pools, chosen, del, csiVars>>

SetShareDone(r, ok) ==
  LET f == reqs[r]
      n == f.rset[f.si]
      done == ok /\ HasReplica(replicas, n)
      reps2 == IF done THEN setShare(replicas, n, f.share) ELSE replicas
  IN /\ f.pc = "setShare"
     /\ Outcome(ok)
     /\ Apply(r, IF done THEN ShareScan(f, reps2, nexus, f.si + 1)
                  ELSE Finish(Answer(f, ok), "INTERNAL"),
              vol, reps2, nexus)
     /\ UNCHANGED <<pools, chosen, del, csiVars>>

\* node.createNexus(uuid, size, replicas) returns: CreateNexus RPC, then the
\* 'nexus new' event reaches Volume.newNexus
CreateNexusDone(r, ok) ==
  LET f == reqs[r]
      made == ok /\ ~nexus.exists
      nex2 == IF made
              THEN [exists |-> TRUE, node |-> f.target, children |-> f.kids,
                    published |-> FALSE]
              ELSE nexus
  IN /\ f.pc = "createNexus"
     /\ Outcome(ok)
     /\ Apply(r, IF made THEN ContTrim(f, replicas, nex2)
                  ELSE Finish(Answer(f, ok), "INTERNAL"),
              vol, replicas, nex2)
     /\ UNCHANGED <<pools, chosen, del, csiVars>>

\* nexus.removeReplica(replica) returns: RemoveChildNexus RPC; a failure is logged
RemoveChildDone(r, ok) ==
  LET f == reqs[r]
      nex2 == IF ok /\ nexus.exists
              THEN [nexus EXCEPT !.children = @ \ {f.olds[f.oi]}] ELSE nexus
  IN /\ f.pc = "removeChild"
     /\ Outcome(ok)
     /\ Apply(r, RemoveScan(Answer(f, ok), replicas, nex2, f.olds, f.news, f.oi + 1),
              vol, replicas, nex2)
     /\ UNCHANGED <<pools, chosen, del, csiVars>>

\* nexus.addReplica(replica) returns: AddChildNexus RPC; a failure is fatal
AddChildDone(r, ok) ==
  LET f == reqs[r]
      done == ok /\ nexus.exists
      nex2 == IF done THEN [nexus EXCEPT !.children = @ \cup {f.news[f.ai]}] ELSE nexus
  IN /\ f.pc = "addChild"
     /\ Outcome(ok)
     /\ Apply(r, IF done THEN AddScan(f, replicas, nex2, f.ai + 1)
                  ELSE Finish(Answer(f, ok), "INTERNAL"),
              vol, replicas, nex2)
     /\ UNCHANGED <<pools, chosen, del, csiVars>>

\* replica.destroy() of the trim returns: DestroyReplica RPC, then the
\* 'replica del' event reaches Volume.delReplica. Promise.all: ensure() goes
\* on when every destroy has succeeded or when the first one has failed.
DestroyDone(n, ok) ==
  LET gone == ok /\ HasReplica(replicas, n)
      reps2 == IF gone THEN delReplica(replicas, n) ELSE replicas
      After(f) == IF f.pc = "trim" /\ n \in f.await
                  THEN (IF ~ok \/ f.await = {n} THEN Finish(Answer(f, ok), "OK")
                        ELSE [f EXCEPT !.await = @ \ {n}])
                  ELSE f
      reqs2 == [r \in ReqIds |-> After(reqs[r])]
      returned == \E r \in ReqIds : reqs[r].pc = "trim" /\ reqs2[r].pc = "done"
  IN /\ n \in destroys
     /\ Outcome(ok)
     /\ destroys' = destroys \ {n}
     /\ replicas' = reps2
     /\ pools' = IF gone
                 THEN [pools EXCEPT ![ReplicaOn(replicas, n).pool].replicas = @ - 1]
                 ELSE pools
     /\ reqs' = reqs2
     /\ lock' = IF lock # 0 /\ reqs2[lock].pc = "done" THEN 0 ELSE lock
     /\ settled' = IF returned THEN TRUE ELSE IF gone THEN FALSE ELSE settled
     /\ UNCHANGED <<vol, nexus, chosen, del, csiVars>>

\* ---------------------------------------------- CSI DeleteVolume
IdleDelete ==
  [pc |-> "idle", list |-> <<>>, i |-> 0, failed |-> FALSE, result |-> "none",
   n |-> 0, hadNexus |-> FALSE, tried |-> <<>>, prev |-> "none"]

\* one destroy the call has awaited, and whether it succeeded
Tried(d, target, ok) == [d EXCEPT !.tried = Append(@, [target |-> target, ok |-> ok])]

\* a mutant of the loop: it stops at the first error
DeleteScanStop(d, i) ==
  IF i <= Len(d.list) /\ ~d.failed THEN [d EXCEPT !.pc = "replica", !.i = i]
  ELSE [d EXCEPT !.pc = "done", !.i = 0, !.result = IF d.failed THEN "INTERNAL" ELSE "OK"]

\* deleteVolume, the loop over the replica set and the reply
DeleteScan(d, i) ==
  IF i <= Len(d.list) THEN [d EXCEPT !.pc = "replica", !.i = i]
  ELSE [d EXCEPT !.pc = "done", !.i = 0, !.result = IF d.failed THEN "INTERNAL" ELSE "OK"]

\* a mutant of the lookup: the replica set is the one the previous call found
getReplicaSetStale == IF del.pc = "done" THEN del.list
                      ELSE SelectSeq(NodeSeq, LAMBDA n : HasReplica(replicas, n))

\* volumes.getReplicaSet(uuid): the nodes of the replicas of the volume
getReplicaSet == SelectSeq(NodeSeq, LAMBDA n : HasReplica(replicas, n))

\* CsiServer.deleteVolume behind the checkReady wrapper: look up the nexus and
\* the replicas, destroy the nexus
DeleteVolume ==
  LET d == [IdleDelete EXCEPT !.n = del.n + 1, !.prev = del.result,
                              !.list = getReplicaSet, !.hadNexus = nexus.exists]
  IN /\ del.pc \in {"idle", "done"}
     /\ del.n < MaxDeletes
     /\ del' = IF ~ready
               THEN [d EXCEPT !.pc = "done", !.list = <<>>, !.hadNexus = FALSE,
                              !.result = "UNAVAILABLE"]
               ELSE IF nexus.exists THEN [d EXCEPT !.pc = "nexus"]
               ELSE DeleteScan(d, 1)
     /\ UNCHANGED <<pools, chosen, vol, replicas, nexus, lock, reqs, destroys, failures, settled, csiVars>>

\* volumes.destroyNexus(node, uuid) returns; the 'nexus del' event reaches
\* Volume.delNexus
DeleteNexusDone(ok) ==
  /\ del.pc = "nexus"
  /\ Outcome(ok)
  /\ nexus' = IF ok THEN NoNexus ELSE nexus
  /\ settled' = IF ok /\ nexus.exists THEN FALSE ELSE settled
  /\ del' = DeleteScan(Tried([del EXCEPT !.failed = ~ok], "nexus", ok), 1)
  /\ UNCHANGED <<pools, chosen, vol, replicas, lock, reqs, destroys, csiVars>>

\* volumes.destroyReplica(node, uuid) returns; the 'replica del' event reaches
\* Volume.delReplica
DeleteReplicaDone(ok) ==
  LET n == del.list[del.i]
      gone == ok /\ HasReplica(replicas, n)
  IN /\ del.pc = "replica"
     /\ Outcome(ok)
     /\ replicas' = IF gone THEN delReplica(replicas, n) ELSE replicas
     /\ pools' = IF gone
                 THEN [pools EXCEPT ![ReplicaOn(replicas, n).pool].replicas = @ - 1]
                 ELSE pools
     /\ settled' = IF gone THEN FALSE ELSE settled
     /\ del' = DeleteScan(Tried([del EXCEPT !.failed = @ \/ ~ok], n, ok), del.i + 1)
     /\ UNCHANGED <<chosen, vol, nexus, lock, reqs, destroys, csiVars>>

\* ------------------------------------------------------ specifications
\* the requests of the orchestrator
ReqSpecs ==
  [count : 1..MaxCount, mustNodes : {{}}, shouldNodes : {{}, {"n2"}},
   requiredBytes : {1}, limitBytes : {0}]

\* the segments that name the nodes of a set
RECURSIVE HostSegments(_)
HostSegments(ns) ==
  IF ns = {} THEN <<>>
  ELSE LET n == CHOOSE x \in ns : \A y \in ns : IndexOf(NodeSeq, x) <= IndexOf(NodeSeq, y)
       IN <<Segment(HostKey, n)>> \o HostSegments(ns \ {n})

\* the CreateVolume request of the orchestrator for the parameters of spec
ArgsOf(spec) ==
  [requiredBytes |-> spec.requiredBytes, limitBytes |-> spec.limitBytes,
   caps |-> [given |-> TRUE, modes |-> <<"SINGLE_NODE_WRITER">>],
   name |-> <<PvcPiece>>, source |-> FALSE,
   topology |-> [given |-> TRUE, requisite |-> HostSegments(spec.mustNodes),
                 preferred |-> HostSegments(spec.shouldNodes)],
   repl |-> <<DigitSeq[spec.count + 1]>>]

\* a volume found at start-up: the replicas and the nexus the nodes report
Replica(n, share) ==
  [uuid |-> VolUuid, node |-> n, pool |-> CHOOSE p \in PoolIds : PoolIdSeq[IndexOf(NodeSeq, n)] = p,
   share |-> share, state |-> "ONLINE", size |-> 1]

DiscoveredReplicas ==
  {s \in UNION {[1..k -> {Replica(n, sh) : n \in Nodes, sh \in Shares}] : k \in 0..MaxDiscovered} :
     \A i \in 1..Len(s), j \in 1..Len(s) :
        i < j => IndexOf(NodeSeq, s[i].node) < IndexOf(NodeSeq, s[j].node)}

OrphanUri == UriOf("n3", "REPLICA_NVMF")

DiscoveredNexus(reps) ==
  {NoNexus} \cup
  {[exists |-> TRUE, node |-> n, children |-> c, published |-> FALSE] :
     n \in Nodes,
     c \in (SUBSET ({Uri(reps[i]) : i \in 1..Len(reps)} \cup {OrphanUri})) \ {{}}}

ImportedVolume ==
  [exists |-> TRUE, replicaCount |-> 1, requiredNodes |-> {}, preferredNodes |-> {},
   requiredBytes |-> 1, limitBytes |-> 0, size |-> 1]

\* one pool per node, ONLINE and empty but for the replicas of the volume
VolumePools(reps) ==
  [p \in PoolIds |->
     [node |-> NodeSeq[IndexOf(PoolIdSeq, p)], state |-> "POOL_ONLINE", capacity |-> MaxBytes,
      used |-> 0, replicas |-> Cardinality({i \in 1..Len(reps) : reps[i].pool = p})]]

\* no CSI request served yet
NoReply ==
  [method |-> "", code |-> "", reached |-> FALSE, args |-> <<>>, value |-> 0, rpc |-> "",
   n |-> 0, prev |-> <<"", "">>]

\* a client that has not asked for a listing
NoListing ==
  [state |-> "new", code |-> "", snapshot |-> <<>>, got |-> <<>>, token |-> <<>>,
   asked |-> <<>>, calls |-> 0, pageOk |-> TRUE]

\* the server has served no request yet
IdleServer ==
  /\ call = NoReply
  /\ listContexts = <<>>
  /\ nextListContextId = 1
  /\ otherNexus = <<>>
  /\ listings = [c \in ListClients |-> NoListing]

\* the server after makeReady, no request served yet
IdleCsi == ready = TRUE /\ IdleServer

\* Volume.update has not been called
NoUpdate == [called |-> FALSE, before |-> <<>>, spec |-> <<>>, after |-> <<>>,
             changed |-> FALSE, threw |-> FALSE]

\* the properties of the pool of the unit tests
TestProps == [disks |-> "/dev/sda", state |-> "POOL_ONLINE", capacity |-> 100, used |-> 4]

\* no operation of the pool has run
NoPoolOp == [name |-> "none", before |-> TestProps, owned |-> <<>>, args |-> TestProps,
             outcome |-> "none", result |-> "none"]

\* new Pool(props) registered with its node, without replicas
RegisteredPool(props) ==
  [props |-> props, replicas |-> <<>>, bound |-> TRUE, pc |-> "idle", op |-> NoPoolOp]

\* an event of a node
Event(kind, eventType, object) == [kind |-> kind, eventType |-> eventType, object |-> object]

\* the names nodes are registered under, and no node under a name
NodeNames == {"node", "node2"}

NoNode == [id |-> 0, endpoint |-> ""]

\* new Registry(): no node
EmptyRegistry == [nodes |-> [n \in NodeNames |-> NoNode], listening |-> {}, made |-> 0]

\* no node object has emitted anything
NothingRelayed == [seen |-> FALSE]

\* Volume.destroy has not been called
NoDestroy == [pc |-> "none", hadNexus |-> FALSE, owned |-> <<>>, pending |-> {}, log |-> <<>>]

\* no event has reached the volume
NoEvent == [op |-> "none", id |-> 0, state |-> ""]

\* Volume constructor: the state variables of the volume (0: no nexus)
NewVolumeObject ==
  [nexus |-> 0, state |-> "PENDING", reason |-> "The volume is being created",
   creating |-> FALSE, last |-> NoEvent]

\* the objects of the unit models as constructed
IdleUnits ==
  /\ updated = NoUpdate
  /\ poolObj = RegisteredPool(TestProps)
  /\ emitted = <<Event("pool", "new", "pool")>>
  /\ registry = EmptyRegistry
  /\ relayed = NothingRelayed
  /\ vdestroy = NoDestroy
  /\ vobj = NewVolumeObject

\* no call of the volume manager is under way
IdleManager ==
  /\ lock = 0
  /\ reqs = [r \in ReqIds |-> BlankFrame]
  /\ destroys = {}
  /\ failures = 0
  /\ settled = FALSE
  /\ del = IdleDelete
  /\ IdleUnits

IdleVolume == IdleCsi /\ IdleManager

\* no volume yet and nothing of it on the nodes
NothingFound ==
  /\ vol = NoVolume
  /\ replicas = <<>>
  /\ nexus = NoNexus
  /\ pools = VolumePools(<<>>)
  /\ chosen = NoCall

\* a volume as found at start-up
VolumeFound ==
  /\ vol = ImportedVolume
  /\ replicas \in DiscoveredReplicas
  /\ nexus \in DiscoveredNexus(replicas)
  /\ pools = VolumePools(replicas)
  /\ chosen = NoCall

InitFresh == NothingFound /\ IdleVolume

InitImported == VolumeFound /\ IdleVolume

Init == InitFresh \/ InitImported

Next ==
  \/ \E r \in ReqIds, spec \in ReqSpecs : CreateVolume(r, ArgsOf(spec))
  \/ \E r \in ReqIds : Reconcile(r)
  \/ \E r \in ReqIds : LockGranted(r)
  \/ \E r \in ReqIds, ok \in BOOLEAN : CreateReplicaDone(r, ok)
  \/ \E r \in ReqIds, ok \in BOOLEAN : SetShareDone(r, ok)
  \/ \E r \in ReqIds, ok \in BOOLEAN : CreateNexusDone(r, ok)
  \/ \E r \in ReqIds, ok \in BOOLEAN : RemoveChildDone(r, ok)
  \/ \E r \in ReqIds, ok \in BOOLEAN : AddChildDone(r, ok)
  \/ \E n \in Nodes, ok \in BOOLEAN : DestroyDone(n, ok)

Spec == Init /\ [][Next]_vars

\* the pools with the ones of out offline
WithOutage(ps, out) ==
  [p \in PoolIds |-> IF p \in out THEN [ps[p] EXCEPT !.state = "POOL_OFFLINE"] ELSE ps[p]]

\* a start, fresh or with a volume found, where some of the pools are offline
InitScarce ==
  /\ \/ vol = NoVolume /\ replicas = <<>> /\ nexus = NoNexus
     \/ vol = ImportedVolume /\ replicas \in DiscoveredReplicas
        /\ nexus \in DiscoveredNexus(replicas)
  /\ pools \in {WithOutage(VolumePools(replicas), out) : out \in SUBSET PoolIds}
  /\ chosen = NoCall
  /\ IdleVolume

\* the requests of Spec where pools are scarce
SpecScarce == InitScarce /\ [][Next]_vars

\* an ensure() of the volume awaits a call: the event loop can deliver events
Suspended == \E r \in ReqIds : reqs[r].pc \in RunningPcs

\* the nexus of the volume goes away on its node and the registry delivers
\* 'nexus del' to Volume.delNexus while ensure() awaits a call
NexusDel ==
  /\ Suspended
  /\ nexus.exists
  /\ nexus' = NoNexus
  /\ settled' = FALSE
  /\ UNCHANGED <<pools, chosen, vol, replicas, lock, reqs, destroys, failures, del, csiVars>>

\* a replica of the volume goes away on its node and the registry delivers
\* 'replica del' to Volume.delReplica
ReplicaDel(n) ==
  /\ Suspended
  /\ HasReplica(replicas, n)
  /\ replicas' = delReplica(replicas, n)
  /\ pools' = [pools EXCEPT ![ReplicaOn(replicas, n).pool].replicas = @ - 1]
  /\ settled' = FALSE
  /\ UNCHANGED <<chosen, vol, nexus, lock, reqs, destroys, failures, del, csiVars>>

\* a replica of the volume is found on a node and the registry delivers
\* 'replica new' to Volume.newReplica
ReplicaNew(n) ==
  /\ Suspended
  /\ ~HasReplica(replicas, n)
  /\ pools[Replica(n, "REPLICA_NONE").pool].replicas < MaxPoolReplicas
  /\ replicas' = newReplica(replicas, Replica(n, "REPLICA_NONE"))
  /\ pools' = [pools EXCEPT ![Replica(n, "REPLICA_NONE").pool].replicas = @ + 1]
  /\ settled' = FALSE
  /\ UNCHANGED <<chosen, vol, nexus, lock, reqs, destroys, failures, del, csiVars>>

NextEvents ==
  \/ \E r \in ReqIds : Reconcile(r)
  \/ \E r \in ReqIds : LockGranted(r)
  \/ \E r \in ReqIds, ok \in BOOLEAN : CreateReplicaDone(r, ok)
  \/ \E r \in ReqIds, ok \in BOOLEAN : SetShareDone(r, ok)
  \/ \E r \in ReqIds, ok \in BOOLEAN : CreateNexusDone(r, ok)
  \/ \E r \in ReqIds, ok \in BOOLEAN : RemoveChildDone(r, ok)
  \/ \E r \in ReqIds, ok \in BOOLEAN : AddChildDone(r, ok)
  \/ \E n \in Nodes, ok \in BOOLEAN : DestroyDone(n, ok)
  \/ NexusDel
  \/ \E n \in Nodes : ReplicaDel(n)
  \/ \E n \in Nodes : ReplicaNew(n)

\* ensure() runs of a volume found at start-up while registry events arrive
SpecEvents == InitImported /\ [][NextEvents]_vars

\* the pools with these bytes in use
WithUsed(ps, used) == [p \in PoolIds |-> [ps[p] EXCEPT !.used = used[p]]]

\* requests that differ in the bytes they ask for
SizeSpecs ==
  [count : 1..MaxCount, mustNodes : {{}}, shouldNodes : {{}},
   requiredBytes : {1, 2}, limitBytes : {0, 1, MaxBytes}]

\* a fresh start on pools that are partly used
InitSizes ==
  /\ vol = NoVolume
  /\ replicas = <<>>
  /\ nexus = NoNexus
  /\ pools \in {WithUsed(VolumePools(<<>>), used) : used \in [PoolIds -> 0..(MaxBytes - 1)]}
  /\ chosen = NoCall
  /\ IdleVolume

NextSizes ==
  \/ \E r \in ReqIds, spec \in SizeSpecs : CreateVolume(r, ArgsOf(spec))
  \/ \E r \in ReqIds : Reconcile(r)
  \/ \E r \in ReqIds : LockGranted(r)
  \/ \E r \in ReqIds, ok \in BOOLEAN : CreateReplicaDone(r, ok)
  \/ \E r \in ReqIds, ok \in BOOLEAN : SetShareDone(r, ok)
  \/ \E r \in ReqIds, ok \in BOOLEAN : CreateNexusDone(r, ok)
  \/ \E r \in ReqIds, ok \in BOOLEAN : RemoveChildDone(r, ok)
  \/ \E r \in ReqIds, ok \in BOOLEAN : AddChildDone(r, ok)
  \/ \E n \in Nodes, ok \in BOOLEAN : DestroyDone(n, ok)

\* the requests of Spec with sizes and pools that vary
SpecSizes == InitSizes /\ [][NextSizes]_vars

\* the states a replica is reported in
ReplicaStates == {"ONLINE", "OFFLINE"}

\* the replicas found at start-up, in any state
RankReplicas ==
  {[i \in 1..Len(s) |-> [s[i] EXCEPT !.state = st[i]]] :
     s \in {d \in DiscoveredReplicas : Len(d) >= 1},
     st \in [1..MaxDiscovered -> ReplicaStates]}

\* requests that name required and preferred nodes
RankSpecs ==
  [count : 1..MaxCount, mustNodes : {{}, {"n2"}}, shouldNodes : {{}, {"n3"}},
   requiredBytes : {1}, limitBytes : {0}]

\* a volume found at start-up whose replicas differ in state
InitRank ==
  /\ vol = ImportedVolume
  /\ replicas \in RankReplicas
  /\ nexus \in DiscoveredNexus(replicas)
  /\ pools = VolumePools(replicas)
  /\ chosen = NoCall
  /\ IdleVolume

NextRank ==
  \/ \E r \in ReqIds, spec \in RankSpecs : CreateVolume(r, ArgsOf(spec))
  \/ \E r \in ReqIds : LockGranted(r)
  \/ \E r \in ReqIds, ok \in BOOLEAN : CreateReplicaDone(r, ok)
  \/ \E r \in ReqIds, ok \in BOOLEAN : SetShareDone(r, ok)
  \/ \E r \in ReqIds, ok \in BOOLEAN : CreateNexusDone(r, ok)
  \/ \E r \in ReqIds, ok \in BOOLEAN : RemoveChildDone(r, ok)
  \/ \E r \in ReqIds, ok \in BOOLEAN : AddChildDone(r, ok)
  \/ \E n \in Nodes, ok \in BOOLEAN : DestroyDone(n, ok)

\* requests with node wishes on replicas in different states
SpecRank == InitRank /\ [][NextRank]_vars

NextDelete ==
  \/ DeleteVolume
  \/ \E ok \in BOOLEAN : DeleteNexusDone(ok)
  \/ \E ok \in BOOLEAN : DeleteReplicaDone(ok)

\* CreateVolume and DeleteVolume of the same volume, interleaved at their RPCs
SpecDelete == InitFresh /\ [][Next \/ NextDelete]_vars

\* DeleteVolume requests alone, of no volume or of a volume found at start-up
SpecDeleteOnly == Init /\ [][NextDelete]_vars

\* the repl parameter as text
ReplTexts ==
  {<<>>, <<"0">>, <<"-", "1">>, <<"x">>, <<"2", "x">>, <<"1", ".", "5">>, <<" ", "2">>} \cup
  {<<DigitSeq[n + 1]>> : n \in 1..MaxCount}

\* a CreateVolume request that passes every check
BaseArgs ==
  ArgsOf([count |-> 1, mustNodes |-> {}, shouldNodes |-> {}, requiredBytes |-> 1,
          limitBytes |-> 0])

\* the CreateVolume requests: BaseArgs with one of its arguments varied
CreateArgs ==
  {[BaseArgs EXCEPT !.source = b] : b \in BOOLEAN} \cup
  {[BaseArgs EXCEPT !.name = n] : n \in Names} \cup
  {[BaseArgs EXCEPT !.caps = c] : c \in CapLists} \cup
  {[BaseArgs EXCEPT !.topology = t] :
     t \in {x \in [given : BOOLEAN, requisite : SegLists, preferred : SegLists] :
              ~x.given => (x.requisite = <<>> /\ x.preferred = <<>>)}} \cup
  {[BaseArgs EXCEPT !.repl = t] : t \in ReplTexts}

NextCreate ==
  \/ \E r \in ReqIds, args \in CreateArgs : CreateVolume(r, args)
  \/ \E r \in ReqIds : LockGranted(r)
  \/ \E r \in ReqIds, ok \in BOOLEAN : CreateReplicaDone(r, ok)
  \/ \E r \in ReqIds, ok \in BOOLEAN : SetShareDone(r, ok)
  \/ \E r \in ReqIds, ok \in BOOLEAN : CreateNexusDone(r, ok)
  \/ \E r \in ReqIds, ok \in BOOLEAN : RemoveChildDone(r, ok)
  \/ \E r \in ReqIds, ok \in BOOLEAN : AddChildDone(r, ok)
  \/ \E n \in Nodes, ok \in BOOLEAN : DestroyDone(n, ok)

\* a start with at most one replica of the volume on the nodes
InitCreate == Init /\ Len(replicas) <= 1

\* CreateVolume requests with valid and invalid arguments
SpecCreate == InitCreate /\ [][NextCreate]_vars

\* ------------------------------------------------ pool selection alone
NodeLists == {{}, {"n1"}, {"n2"}, {"n1", "n2"}}

PoolRecords(n) ==
  [node : {n}, state : PoolStates, capacity : {MaxBytes}, used : 0..(MaxBytes - 1),
   replicas : 0..MaxPoolReplicas]

\* p1 on n1, p2 on n2, p3 on n1 or on n3
InitPools ==
  /\ pools \in {f \in [PoolIds -> UNION {PoolRecords(n) : n \in Nodes}] :
                  /\ f["p1"].node = "n1"
                  /\ f["p2"].node = "n2"
                  /\ f["p3"].node \in {"n1", "n3"}}
  /\ chosen = NoCall
  /\ vol = NoVolume
  /\ replicas = <<>>
  /\ nexus = NoNexus
  /\ IdleVolume

\* one call of choosePools on the registry content drawn by InitPools
ChoosePools(b, must, should) ==
  /\ ~chosen.called
  /\ chosen' = [called |-> TRUE, requiredBytes |-> b, mustNodes |-> must,
                shouldNodes |-> should, result |-> choosePools(b, must, should)]
  /\ UNCHANGED <<pools, vol, replicas, nexus, lock, reqs, destroys, failures, settled, del, csiVars>>

NextPools ==
  \E b \in 1..MaxBytes, must \in NodeLists, should \in NodeLists : ChoosePools(b, must, should)

SpecPools == InitPools /\ [][NextPools]_vars

\* -------------------------------------------------------- CSI server
\* cb(err, resp) as the client sees it; reached: the method got to the pool or
\* volume operator
Reply(method, code, reached, args, value) ==
  [method |-> method, code |-> code, reached |-> reached, args |-> args, value |-> value,
   rpc |-> "", n |-> call.n + 1, prev |-> <<call.method, call.code>>]

\* the server takes the next request: the one before it has its reply
CanServe == call.code # "PENDING" /\ call.n < MaxCalls

\* the method awaits an RPC of the volume operator
Pending(method, args) == Reply(method, "PENDING", TRUE, args, 0)

\* a mutant of the checkReady wrapper: the request is answered with success
NotReadyOk(method) == Reply(method, "OK", FALSE, <<>>, 0)

\* the checkReady wrapper of the controller methods, server not ready
NotReady(method) == Reply(method, "UNAVAILABLE", FALSE, <<>>, 0)

\* accessibleTopology of GetCapacity: absent, or segments with a
\* kubernetes.io/hostname key (host), with another key (zone), or with both
Topologies ==
  {t \in [given : BOOLEAN, host : Nodes \cup {""}, zone : BOOLEAN] :
     ~t.given => (t.host = "" /\ ~t.zone)}

\* getCapacity, one node: the reduce over the pools of the node
RECURSIVE NodeReduce(_, _)
NodeReduce(list, acc) ==
  IF list = <<>> THEN acc
  ELSE NodeReduce(Tail(list),
                  IF isAccessible(Head(list)) THEN acc + freeBytes(Head(list)) ELSE 0)

\* getCapacity, one node: filter by node, then the reduce
nodeCapacity(n) == NodeReduce(SelectSeq(getPool, LAMBDA p : pools[p].node = n), 0)

\* getCapacity, all nodes: the reduce over the accessible pools
RECURSIVE TotalReduce(_, _)
TotalReduce(list, acc) ==
  IF list = <<>> THEN acc ELSE TotalReduce(Tail(list), acc + freeBytes(Head(list)))

totalCapacity == TotalReduce(SelectSeq(getPool, LAMBDA p : isAccessible(p)), 0)

\* CsiServer.getCapacity behind the checkReady wrapper
GetCapacity(caps, topo) ==
  /\ CanServe
  /\ call' = IF ~ready THEN NotReady("getCapacity")
             ELSE IF caps.given /\ checkCapabilities(caps) # "OK"
                  THEN Reply("getCapacity", checkCapabilities(caps), FALSE, topo, 0)
             ELSE Reply("getCapacity", "OK", TRUE, topo,
                        IF topo.given /\ topo.host # "" THEN nodeCapacity(topo.host)
                        ELSE totalCapacity)
  /\ UNCHANGED <<pools, chosen, vol, replicas, nexus, lock, reqs, destroys, failures,
                 settled, del, ready, listVars, unitVars>>

\* -------------------------------------- CSI server: ready, identity
\* CsiServer.makeReady
MakeReady ==
  /\ ~ready
  /\ ready' = TRUE
  /\ UNCHANGED <<pools, chosen, vol, replicas, nexus, lock, reqs, destroys, failures,
                 settled, del, call, listVars, unitVars>>

\* CsiServer.undoReady
UndoReady ==
  /\ ready
  /\ ready' = FALSE
  /\ UNCHANGED <<pools, chosen, vol, replicas, nexus, lock, reqs, destroys, failures,
                 settled, del, call, listVars, unitVars>>

IdentityMethods == {"getPluginInfo", "getPluginCapabilities", "probe"}

\* getPluginInfo, getPluginCapabilities, probe: registered without the
\* checkReady wrapper; probe reports the ready flag
Identity(method) ==
  /\ CanServe
  /\ call' = Reply(method, "OK", FALSE, <<>>, IF method = "probe" /\ ready THEN 1 ELSE 0)
  /\ UNCHANGED <<pools, chosen, vol, replicas, nexus, lock, reqs, destroys, failures,
                 settled, del, ready, listVars, unitVars>>

UnimplementedMethods ==
  {"createSnapshot", "deleteSnapshot", "listSnapshots", "controllerExpandVolume"}

\* the notImplemented handler of the controller service
NotImplemented(method) ==
  /\ CanServe
  /\ call' = Reply(method, "UNIMPLEMENTED", FALSE, <<>>, 0)
  /\ UNCHANGED <<pools, chosen, vol, replicas, nexus, lock, reqs, destroys, failures,
                 settled, del, ready, listVars, unitVars>>

\* CsiServer.controllerGetCapabilities behind the checkReady wrapper
ControllerGetCapabilities ==
  /\ CanServe
  /\ call' = IF ~ready THEN NotReady("controllerGetCapabilities")
             ELSE Reply("controllerGetCapabilities", "OK", FALSE, <<>>, 0)
  /\ UNCHANGED <<pools, chosen, vol, replicas, nexus, lock, reqs, destroys, failures,
                 settled, del, ready, listVars, unitVars>>

\* CsiServer.validateVolumeCapabilities behind the checkReady wrapper; the
\* value is 1 when the reply confirms a capability
ValidateVolumeCapabilities(modes) ==
  /\ CanServe
  /\ call' = IF ~ready THEN NotReady("validateVolumeCapabilities")
             ELSE IF ~nexus.exists
                  THEN Reply("validateVolumeCapabilities", "NOT_FOUND", TRUE, modes, 0)
             ELSE Reply("validateVolumeCapabilities", "OK", TRUE, modes,
                        IF \E i \in 1..Len(modes) : modes[i] = "SINGLE_NODE_WRITER"
                        THEN 1 ELSE 0)
  /\ UNCHANGED <<pools, chosen, vol, replicas, nexus, lock, reqs, destroys, failures,
                 settled, del, ready, listVars, unitVars>>

\* --------------------------------------- CSI publish and unpublish
\* args.nodeId as text: the scheme before :// and the node name after it
NodeIdTexts ==
  {[scheme |-> "mayastor", node |-> n] : n \in Nodes \cup {""}} \cup
  {[scheme |-> "http", node |-> "n1"]}

\* parseMayastorNodeId(str) throws
nodeIdMalformed(text) == text.scheme # "mayastor" \/ text.node = ""

\* parseMayastorNodeId(str).node
parseMayastorNodeId(text) == text.node

\* volumeCapability of a publish request: absent, or its access mode
PublishCaps == {[given |-> FALSE, modes |-> <<>>]} \cup
               {[given |-> TRUE, modes |-> <<m>>] : m \in AccessModes}

PublishArgs == [nodeId : NodeIdTexts, readonly : BOOLEAN, cap : PublishCaps]

\* a mutant of the checks: readonly is let through
checkPublishLax(args) ==
  IF ~nexus.exists THEN "NOT_FOUND"
  ELSE IF nodeIdMalformed(args.nodeId) THEN "INVALID_ARGUMENT"
  ELSE IF parseMayastorNodeId(args.nodeId) # nexus.node THEN "INVALID_ARGUMENT"
  ELSE IF ~args.cap.given THEN "INVALID_ARGUMENT"
  ELSE checkCapabilities(args.cap)

\* controllerPublishVolume, the checks before the publish: the code of the
\* error reply, "OK" when the publish is issued
checkPublish(args) ==
  IF ~nexus.exists THEN "NOT_FOUND"
  ELSE IF nodeIdMalformed(args.nodeId) THEN "INVALID_ARGUMENT"
  ELSE IF parseMayastorNodeId(args.nodeId) # nexus.node THEN "INVALID_ARGUMENT"
  ELSE IF args.readonly THEN "INVALID_ARGUMENT"
  ELSE IF ~args.cap.given THEN "INVALID_ARGUMENT"
  ELSE checkCapabilities(args.cap)

\* CsiServer.controllerPublishVolume behind the checkReady wrapper, up to the
\* await of volumes.publishNexus
ControllerPublishVolume(args) ==
  /\ CanServe
  /\ call' = IF ~ready THEN NotReady("controllerPublishVolume")
             ELSE IF checkPublish(args) # "OK"
                  THEN Reply("controllerPublishVolume", checkPublish(args), TRUE, args, 0)
             ELSE Pending("controllerPublishVolume", args)
  /\ UNCHANGED <<pools, chosen, vol, replicas, nexus, lock, reqs, destroys, failures,
                 settled, del, ready, listVars, unitVars>>

\* a mutant of the error handling: ALREADY_EXISTS is passed on to the client
PublishReplyStrict(out) == out

\* controllerPublishVolume, the reply after volumes.publishNexus returned or
\* threw: ALREADY_EXISTS is a success
PublishReply(out) == IF out = "ALREADY_EXISTS" THEN "OK" ELSE out

\* the outcomes of volumes.publishNexus(uuid): published now, published
\* before, or an error of the node
PublishOutcomes == {"OK", "ALREADY_EXISTS", "INTERNAL", "NOT_FOUND"}

\* volumes.publishNexus(uuid) returns or throws, then the reply
PublishNexusDone(out) ==
  /\ call.method = "controllerPublishVolume"
  /\ call.code = "PENDING"
  /\ out = "OK" => nexus.exists
  /\ out = "ALREADY_EXISTS" => nexus.exists /\ nexus.published
  /\ out = "NOT_FOUND" => ~nexus.exists
  /\ Outcome(out \in {"OK", "ALREADY_EXISTS", "NOT_FOUND"})
  /\ nexus' = IF out = "OK" THEN [nexus EXCEPT !.published = TRUE] ELSE nexus
  /\ call' = [call EXCEPT !.code = PublishReply(out), !.rpc = out]
  /\ UNCHANGED <<pools, chosen, vol, replicas, lock, reqs, destroys, settled, del, ready,
                 listVars, unitVars>>

\* a mutant of the unpublish: a node id of another node is rejected
checkUnpublishStrict(text) ==
  IF ~nexus.exists THEN "NOT_FOUND"
  ELSE IF nodeIdMalformed(text) THEN "INVALID_ARGUMENT"
  ELSE IF parseMayastorNodeId(text) # nexus.node THEN "INVALID_ARGUMENT"
  ELSE "OK"

\* controllerUnpublishVolume, the checks before the unpublish; a node id of
\* another node is logged only
checkUnpublish(text) ==
  IF ~nexus.exists THEN "NOT_FOUND"
  ELSE IF nodeIdMalformed(text) THEN "INVALID_ARGUMENT"
  ELSE "OK"

\* CsiServer.controllerUnpublishVolume behind the checkReady wrapper, up to
\* the await of volumes.unpublishNexus
ControllerUnpublishVolume(text) ==
  /\ CanServe
  /\ call' = IF ~ready THEN NotReady("controllerUnpublishVolume")
             ELSE IF checkUnpublish(text) # "OK"
                  THEN Reply("controllerUnpublishVolume", checkUnpublish(text), TRUE, text, 0)
             ELSE Pending("controllerUnpublishVolume", text)
  /\ UNCHANGED <<pools, chosen, vol, replicas, nexus, lock, reqs, destroys, failures,
                 settled, del, ready, listVars, unitVars>>

\* the outcomes of volumes.unpublishNexus(uuid)
UnpublishOutcomes == {"OK", "INTERNAL", "NOT_FOUND"}

\* volumes.unpublishNexus(uuid) returns or throws, then the reply
UnpublishNexusDone(out) ==
  /\ call.method = "controllerUnpublishVolume"
  /\ call.code = "PENDING"
  /\ out = "OK" => nexus.exists
  /\ out = "NOT_FOUND" => ~nexus.exists
  /\ Outcome(out \in {"OK", "NOT_FOUND"})
  /\ nexus' = IF out = "OK" THEN [nexus EXCEPT !.published = FALSE] ELSE nexus
  /\ call' = [call EXCEPT !.code = out, !.rpc = out]
  /\ UNCHANGED <<pools, chosen, vol, replicas, lock, reqs, destroys, settled, del, ready,
                 listVars, unitVars>>

\* ------------------------------------------------ CSI ListVolumes
\* args.maxEntries when the request gives none
DefaultMaxEntries == 1000

\* the nexus of the volume and the nexus of another volume, as list entries
OwnNexus == <<VolUuid, 0>>
OtherNexus(k) == <<"v", k>>

\* volumes.getNexus(): every nexus the volume operator knows
getNexusList == (IF nexus.exists THEN <<OwnNexus>> ELSE <<>>) \o otherNexus

\* ctxId.toString(): the token of a paging context, and its key in listContexts
toString(id) == <<DigitSeq[id + 1]>>

\* ctx.volumes.splice(0, maxEntries): the entries taken
PageEntries(ctx, max) == SubSeq(ctx, 1, IF max < Len(ctx) THEN max ELSE Len(ctx))

\* a mutant of splice: one entry more is removed than is returned
PageRestSkip(ctx, max) == SubSeq(ctx, max + 2, Len(ctx))

\* ctx.volumes.splice(0, maxEntries): the entries left in the context
PageRest(ctx, max) == SubSeq(ctx, max + 1, Len(ctx))

\* listContexts without the key
DeleteContext(ctxs, token) == [k \in DOMAIN ctxs \ {token} |-> ctxs[k]]

\* property names that every object literal inherits from Object.prototype:
\* listContexts[name] yields the inherited value, which is not undefined
InheritedKeys == {<<"constructor">>, <<"toString">>}

\* CsiServer.listVolumes behind the checkReady wrapper, for client c and the
\* startingToken of the request (<<>> when the request has none)
ListVolumesAt(c, token, maxEntries) ==
  LET l == listings[c]
      first == token = <<>>
      own == token \in DOMAIN listContexts
      gone == ~first /\ ~own /\ token \notin InheritedKeys
      thrown == ~first /\ ~own /\ token \in InheritedKeys
      ctx == IF first THEN getNexusList ELSE IF own THEN listContexts[token] ELSE <<>>
      max == IF maxEntries = 0 THEN DefaultMaxEntries ELSE maxEntries
      entries == PageEntries(ctx, max)
      rest == PageRest(ctx, max)
      ctxs == DeleteContext(listContexts, token)
      l1 == [l EXCEPT !.calls = @ + 1, !.asked = token]
  IN /\ nextListContextId <= MaxContextId
     /\ IF ~ready
        THEN /\ listings' = [listings EXCEPT ![c] = [l1 EXCEPT !.state = "error",
                                                              !.code = "UNAVAILABLE"]]
             /\ UNCHANGED <<listContexts, nextListContextId>>
        ELSE IF gone
        THEN /\ listings' = [listings EXCEPT ![c] = [l1 EXCEPT !.state = "error",
                                                              !.code = "INVALID_ARGUMENT"]]
             /\ listContexts' = ctxs
             /\ UNCHANGED nextListContextId
        ELSE IF thrown
        THEN \* ctx.volumes is undefined: splice throws a TypeError inside the
             \* async handler and cb is never called
             /\ listings' = [listings EXCEPT ![c] = [l1 EXCEPT !.state = "error",
                                                              !.code = "NO_REPLY"]]
             /\ UNCHANGED <<listContexts, nextListContextId>>
        ELSE /\ listings' =
                  [listings EXCEPT ![c] =
                     [l1 EXCEPT !.state = IF rest # <<>> THEN "open" ELSE "done",
                                !.code = "OK",
                                !.snapshot = IF first THEN ctx ELSE @,
                                !.got = @ \o entries,
                                !.token = IF rest # <<>> THEN toString(nextListContextId)
                                          ELSE <<>>,
                                !.pageOk = @ /\ Len(entries) <= max]]
             /\ listContexts' = IF rest # <<>>
                                THEN (toString(nextListContextId) :> rest) @@ ctxs
                                ELSE ctxs
             /\ nextListContextId' = IF rest # <<>> THEN nextListContextId + 1
                                     ELSE nextListContextId
     /\ UNCHANGED <<pools, chosen, vol, replicas, nexus, lock, reqs, destroys, failures,
                    settled, del, ready, call, otherNexus, unitVars>>

\* a client that follows its listing: the first page, or the page of the
\* token the last reply gave it
ListVolumes(c, maxEntries) ==
  /\ listings[c].state \in {"new", "open"}
  /\ ListVolumesAt(c, listings[c].token, maxEntries)

\* the startingToken values a client may send
Tokens == {<<>>} \cup {toString(id) : id \in 1..MaxContextId} \cup InheritedKeys

\* a client that sends any startingToken, one it was never given included
PresentToken(c, token, maxEntries) ==
  /\ listings[c].calls < MaxListCalls
  /\ ListVolumesAt(c, token, maxEntries)

\* the nexus of another volume is created
NexusAppears(k) ==
  /\ \A i \in 1..Len(otherNexus) : otherNexus[i] # OtherNexus(k)
  /\ otherNexus' = Append(otherNexus, OtherNexus(k))
  /\ UNCHANGED <<pools, chosen, vol, replicas, nexus, lock, reqs, destroys, failures,
                 settled, del, ready, call, listContexts, nextListContextId, listings,
                 unitVars>>

\* the nexus of another volume is destroyed
NexusDisappears(i) ==
  /\ i \in 1..Len(otherNexus)
  /\ otherNexus' = RemoveAt(otherNexus, i)
  /\ UNCHANGED <<pools, chosen, vol, replicas, nexus, lock, reqs, destroys, failures,
                 settled, del, ready, call, listContexts, nextListContextId, listings,
                 unitVars>>

NextList ==
  \/ \E c \in ListClients, maxEntries \in 0..MaxPage : ListVolumes(c, maxEntries)
  \/ \E k \in 1..MaxOthers : NexusAppears(k)
  \/ \E i \in 1..MaxOthers : NexusDisappears(i)

\* a start without replicas of the volume: the listing reads of the volume
\* only whether it has a nexus
InitList == Init /\ replicas = <<>>

\* ListVolumes listings while the nexuses of other volumes come and go
SpecList == InitList /\ [][NextList]_vars

NextTokens ==
  \/ \E c \in ListClients, token \in Tokens : PresentToken(c, token, 1)
  \/ \E k \in 1..MaxOthers : NexusAppears(k)
  \/ \E i \in 1..MaxOthers : NexusDisappears(i)

\* ListVolumes requests with any startingToken
SpecTokens == InitList /\ [][NextTokens]_vars

\* the same with a server that keeps taking steps: listVolumes sets no timer
\* and no other handler of the server touches listContexts
SpecTokensLive == InitList /\ [][NextTokens]_vars /\ WF_vars(NextTokens)

\* a volume found at start-up, its nexus published or not
InitPublish ==
  /\ vol = ImportedVolume
  /\ replicas \in DiscoveredReplicas
  /\ nexus \in {[x EXCEPT !.published = b] :
                  x \in DiscoveredNexus(replicas) \ {NoNexus}, b \in BOOLEAN} \cup {NoNexus}
  /\ pools = VolumePools(replicas)
  /\ chosen = NoCall
  /\ IdleVolume

NextPublish ==
  \/ \E args \in PublishArgs : ControllerPublishVolume(args)
  \/ \E out \in PublishOutcomes : PublishNexusDone(out)
  \/ \E text \in NodeIdTexts : ControllerUnpublishVolume(text)
  \/ \E out \in UnpublishOutcomes : UnpublishNexusDone(out)

\* publish and unpublish requests for a volume found at start-up
SpecPublish == InitPublish /\ [][NextPublish]_vars

NextCapacity == \E caps \in CapLists, topo \in Topologies : GetCapacity(caps, topo)

\* the registry content drawn by InitPools, the pools without replicas:
\* getCapacity reads the state, capacity and used bytes of a pool only
InitCapacity == InitPools /\ \A p \in PoolIds : pools[p].replicas = 0

\* GetCapacity requests on the registry content
SpecCapacity == InitCapacity /\ [][NextCapacity]_vars

\* ----------------------------------------- CSI server: all methods
\* the requests the server has taken
Served ==
  call.n + del.n + Cardinality({r \in ReqIds : reqs[r].pc # "new"})
  + Cardinality({c \in ListClients : listings[c].calls > 0})

\* the server takes one more request
Budget == Served < MaxCalls

\* makeReady, undoReady, a request of any method of the Identity and Controller
\* services, or the return of an RPC
NextCsi ==
  \/ MakeReady
  \/ UndoReady
  \/ \E m \in IdentityMethods : Budget /\ Identity(m)
  \/ \E m \in UnimplementedMethods : Budget /\ NotImplemented(m)
  \/ Budget /\ ControllerGetCapabilities
  \/ Budget /\ ValidateVolumeCapabilities(<<"SINGLE_NODE_WRITER">>)
  \/ Budget /\ GetCapacity([given |-> FALSE, modes |-> <<>>],
                           [given |-> FALSE, host |-> "", zone |-> FALSE])
  \/ \E c \in ListClients : Budget /\ ListVolumes(c, 0)
  \/ \E r \in ReqIds, args \in {BaseArgs, [BaseArgs EXCEPT !.source = TRUE]} :
       Budget /\ CreateVolume(r, args)
  \/ Budget /\ DeleteVolume
  \/ \E args \in {a \in PublishArgs : /\ ~a.readonly
                                      /\ a.cap.modes = <<"SINGLE_NODE_WRITER">>
                                      /\ a.nodeId.scheme = "mayastor"} :
       Budget /\ ControllerPublishVolume(args)
  \/ \E text \in {t \in NodeIdTexts : t.scheme = "mayastor"} :
       Budget /\ ControllerUnpublishVolume(text)
  \/ \E r \in ReqIds : LockGranted(r)
  \/ \E r \in ReqIds, ok \in BOOLEAN : CreateReplicaDone(r, ok)
  \/ \E r \in ReqIds, ok \in BOOLEAN : SetShareDone(r, ok)
  \/ \E r \in ReqIds, ok \in BOOLEAN : CreateNexusDone(r, ok)
  \/ \E r \in ReqIds, ok \in BOOLEAN : RemoveChildDone(r, ok)
  \/ \E r \in ReqIds, ok \in BOOLEAN : AddChildDone(r, ok)
  \/ \E n \in Nodes, ok \in BOOLEAN : DestroyDone(n, ok)
  \/ \E ok \in BOOLEAN : DeleteNexusDone(ok)
  \/ \E ok \in BOOLEAN : DeleteReplicaDone(ok)
  \/ \E out \in PublishOutcomes : PublishNexusDone(out)
  \/ \E out \in UnpublishOutcomes : UnpublishNexusDone(out)

\* the server as constructed: not ready, no request served
InitCsi == (NothingFound \/ VolumeFound) /\ ready = FALSE /\ IdleServer /\ IdleManager

\* the server from its construction on: makeReady, undoReady and the requests
\* of all methods
SpecCsi == InitCsi /\ [][NextCsi]_vars

\* ------------------------------------------------ Volume.update alone
\* node lists of a spec: the names in the order the caller gave them
NodeArrays == {<<>>, <<"n1">>, <<"n2">>, <<"n1", "n2">>, <<"n2", "n1">>, <<"n1", "n1">>}

\* Array.sort() of node names
RECURSIVE sortNodes(_)
sortNodes(list) ==
  IF list = <<>> THEN <<>>
  ELSE LET least == CHOOSE i \in 1..Len(list) :
                      \A j \in 1..Len(list) :
                        IndexOf(NodeSeq, list[i]) <= IndexOf(NodeSeq, list[j])
       IN <<list[least]>> \o sortNodes(RemoveAt(list, least))

\* the spec fields and the size of a Volume object; the constructor and
\* update() keep the node lists sorted
VolumeObjects ==
  [replicaCount : 1..MaxCount,
   preferredNodes : {sortNodes(l) : l \in NodeArrays},
   requiredNodes : {<<>>, <<"n1">>},
   requiredBytes : 1..MaxBytes, limitBytes : {0, MaxBytes}, size : 0..MaxBytes]

\* the spec handed to update()
UpdateSpecs ==
  [replicaCount : 1..MaxCount, preferredNodes : NodeArrays, requiredNodes : {<<>>, <<"n1">>},
   requiredBytes : 1..MaxBytes, limitBytes : {0, 1, MaxBytes}]

\* Volume.update(spec) throws INVALID_ARGUMENT
updateThrows(v, spec) ==
  \/ v.size < spec.requiredBytes
  \/ (spec.limitBytes # 0 /\ v.size > spec.limitBytes)

\* a mutant of update: the node lists of the spec are compared as given
updateChangedUnsorted(v, spec) ==
  \/ v.replicaCount # spec.replicaCount
  \/ v.preferredNodes # spec.preferredNodes
  \/ v.requiredNodes # spec.requiredNodes
  \/ v.requiredBytes # spec.requiredBytes
  \/ v.limitBytes # spec.limitBytes

\* Volume.update(spec), the value returned
updateChanged(v, spec) ==
  \/ v.replicaCount # spec.replicaCount
  \/ v.preferredNodes # sortNodes(spec.preferredNodes)
  \/ v.requiredNodes # sortNodes(spec.requiredNodes)
  \/ v.requiredBytes # spec.requiredBytes
  \/ v.limitBytes # spec.limitBytes

\* Volume.update(spec), the fields of the volume after the call
updateFields(v, spec) ==
  IF updateThrows(v, spec) THEN v
  ELSE [v EXCEPT !.replicaCount = spec.replicaCount,
                 !.preferredNodes = sortNodes(spec.preferredNodes),
                 !.requiredNodes = sortNodes(spec.requiredNodes),
                 !.requiredBytes = spec.requiredBytes,
                 !.limitBytes = spec.limitBytes]

\* one call of Volume.update(spec) on a Volume object
UpdateVolume(v, spec) ==
  /\ ~updated.called
  /\ updated' = [called |-> TRUE, before |-> v, spec |-> spec,
                 after |-> updateFields(v, spec),
                 changed |-> ~updateThrows(v, spec) /\ updateChanged(v, spec),
                 threw |-> updateThrows(v, spec)]
  /\ UNCHANGED <<coreVars, poolObj, emitted, registry, relayed, vdestroy>>

NextUpdate ==
  /\ ~updated.called
  /\ \E v \in VolumeObjects, spec \in UpdateSpecs : UpdateVolume(v, spec)

SpecUpdate == InitFresh /\ [][NextUpdate]_vars

\* ------------------------------------------------ Pool (pool.js)
PoolProps ==
  [disks : {"/dev/sda", "/dev/sdb"}, state : {"POOL_ONLINE", "POOL_DEGRADED"},
   capacity : {100, 101}, used : {4, 99}]

\* a replica as a node lists it
ReplicaProp(uuid, size) == [uuid |-> uuid, size |-> size]

\* the replicas a node lists for the pool: no uuid twice
ReplicaLists ==
  {<<>>, <<ReplicaProp("to-modify", 10)>>, <<ReplicaProp("to-modify", 20)>>,
   <<ReplicaProp("to-delete", 10)>>,
   <<ReplicaProp("to-modify", 10), ReplicaProp("to-delete", 10)>>,
   <<ReplicaProp("to-delete", 10), ReplicaProp("to-modify", 20)>>}

\* the replica of the list with this uuid, 0 if none
ReplicaIndex(list, uuid) ==
  IF \E i \in 1..Len(list) : list[i].uuid = uuid
  THEN CHOOSE i \in 1..Len(list) : list[i].uuid = uuid
  ELSE 0

\* a mutant of merge: any property that differs counts as a change
propsChangedAny(props, newProps) == props # newProps

\* Pool.merge: a volatile property of the pool differs
propsChanged(props, newProps) ==
  \/ props.state # newProps.state
  \/ props.capacity # newProps.capacity
  \/ props.used # newProps.used

\* Pool.merge: the events of the replicas of the list, new or modified
RECURSIVE listedEvents(_, _)
listedEvents(olds, list) ==
  IF list = <<>> THEN <<>>
  ELSE LET r == Head(list)
           i == ReplicaIndex(olds, r.uuid)
           ev == IF i = 0 THEN <<Event("replica", "new", r.uuid)>>
                 ELSE IF olds[i] # r THEN <<Event("replica", "mod", r.uuid)>>
                 ELSE <<>>
       IN ev \o listedEvents(olds, Tail(list))

\* Pool.merge: the events of the replicas the list no longer holds
RECURSIVE goneEvents(_, _)
goneEvents(olds, list) ==
  IF olds = <<>> THEN <<>>
  ELSE (IF ReplicaIndex(list, Head(olds).uuid) = 0
        THEN <<Event("replica", "del", Head(olds).uuid)>> ELSE <<>>)
       \o goneEvents(Tail(olds), list)

\* Pool.merge: the replicas of the pool afterwards
mergedReplicas(olds, list) ==
  LET kept == SelectSeq(olds, LAMBDA r : ReplicaIndex(list, r.uuid) # 0)
      added == SelectSeq(list, LAMBDA r : ReplicaIndex(olds, r.uuid) = 0)
  IN [i \in 1..Len(kept) |-> list[ReplicaIndex(list, kept[i].uuid)]] \o added

\* new Pool(props); node._registerPool(pool)
registerPool(props) ==
  /\ ~poolObj.bound
  /\ poolObj' = [RegisteredPool(props) EXCEPT !.op = [NoPoolOp EXCEPT !.name = "register"]]
  /\ emitted' = <<Event("pool", "new", "pool")>>
  /\ UNCHANGED <<coreVars, updated, registry, relayed, vdestroy>>

\* pool.merge(newProps, replicaList)
merge(newProps, list) ==
  /\ poolObj.bound
  /\ poolObj.pc = "idle"
  /\ poolObj' = [poolObj EXCEPT
       !.props = [@ EXCEPT !.state = newProps.state, !.capacity = newProps.capacity,
                           !.used = newProps.used],
       !.replicas = mergedReplicas(@, list),
       !.op = [name |-> "merge", before |-> poolObj.props, owned |-> poolObj.replicas,
               args |-> newProps, outcome |-> "none", result |-> "ok"]]
  /\ emitted' = (IF propsChanged(poolObj.props, newProps)
                 THEN <<Event("pool", "mod", "pool")>> ELSE <<>>)
                \o listedEvents(poolObj.replicas, list)
                \o goneEvents(poolObj.replicas, list)
  /\ UNCHANGED <<coreVars, updated, registry, relayed, vdestroy>>

\* pool.destroy(): the destroyPool call is sent to the node
PoolDestroy ==
  /\ poolObj.bound
  /\ poolObj.pc = "idle"
  /\ poolObj' = [poolObj EXCEPT
       !.pc = "destroyPool",
       !.op = [name |-> "destroy", before |-> poolObj.props, owned |-> poolObj.replicas,
               args |-> poolObj.props, outcome |-> "none", result |-> "none"]]
  /\ emitted' = <<>>
  /\ UNCHANGED <<coreVars, updated, registry, relayed, vdestroy>>

\* a mutant of destroy: the pool is unbound before its replicas are unregistered
destroyEventsPoolFirst(owned) ==
  <<Event("pool", "del", "pool")>>
  \o [i \in 1..Len(owned) |-> Event("replica", "del", owned[i].uuid)]

\* pool.destroy(): the events once the node has answered
destroyEvents(owned) ==
  [i \in 1..Len(owned) |-> Event("replica", "del", owned[i].uuid)]
  \o <<Event("pool", "del", "pool")>>

\* pool.destroy(): the answer of the node to destroyPool
PoolDestroyDone(outcome) ==
  /\ poolObj.pc = "destroyPool"
  /\ IF outcome \in {"OK", "NOT_FOUND"}
     THEN /\ poolObj' = [poolObj EXCEPT !.pc = "idle", !.bound = FALSE, !.replicas = <<>>,
                                        !.op.outcome = outcome, !.op.result = "ok"]
          /\ emitted' = destroyEvents(poolObj.replicas)
     ELSE /\ poolObj' = [poolObj EXCEPT !.pc = "idle", !.op.outcome = outcome,
                                        !.op.result = "error"]
          /\ emitted' = <<>>
  /\ UNCHANGED <<coreVars, updated, registry, relayed, vdestroy>>

NextPool ==
  \/ \E props \in PoolProps : registerPool(props)
  \/ \E newProps \in PoolProps, list \in ReplicaLists : merge(newProps, list)
  \/ PoolDestroy
  \/ \E outcome \in {"OK", "NOT_FOUND", "INTERNAL"} : PoolDestroyDone(outcome)

SpecPool == InitFresh /\ [][NextPool]_vars

\* ------------------------------------------------ Registry: event relay
Endpoints == {"127.0.0.1:123", "127.0.0.1:124"}

EventKinds == {"node", "pool", "replica", "nexus"}

\* a mutant of removeNode: the listeners of the registry stay on the node object
unbindKept(listening, id) == listening

\* Registry: the listeners of the registry are taken off the node object
unbind(listening, id) == listening \ {id}

\* registry.addNode(name, endpoint)
addNode(name, endpoint) ==
  LET old == registry.nodes[name]
      id == registry.made + 1
  IN /\ (old.id # 0 /\ old.endpoint = endpoint) \/ registry.made < MaxNodeObjs
     /\ registry' =
          IF old.id # 0 /\ old.endpoint = endpoint THEN registry
          ELSE [nodes |-> [registry.nodes EXCEPT ![name] = [id |-> id, endpoint |-> endpoint]],
                listening |-> (IF old.id = 0 THEN registry.listening
                               ELSE unbind(registry.listening, old.id)) \cup {id},
                made |-> id]
     /\ UNCHANGED <<coreVars, updated, poolObj, emitted, relayed, vdestroy>>

\* registry.removeNode(name)
removeNode(name) ==
  LET old == registry.nodes[name]
  IN /\ registry' =
          IF old.id = 0 THEN registry
          ELSE [registry EXCEPT !.nodes[name] = NoNode,
                                !.listening = unbind(@, old.id)]
     /\ UNCHANGED <<coreVars, updated, poolObj, emitted, relayed, vdestroy>>

\* registry.close(): every node is removed
RECURSIVE unbindAll(_, _)
unbindAll(listening, ids) ==
  IF ids = {} THEN listening
  ELSE LET id == CHOOSE x \in ids : TRUE
       IN unbindAll(unbind(listening, id), ids \ {id})

close ==
  /\ registry' = [registry EXCEPT
       !.nodes = [n \in NodeNames |-> NoNode],
       !.listening = unbindAll(@, {registry.nodes[n].id : n \in NodeNames} \ {0})]
  /\ UNCHANGED <<coreVars, updated, poolObj, emitted, relayed, vdestroy>>

\* a node object the registry made, registered or removed since, emits an event
NodeEmits(id, kind) ==
  /\ id \in 1..registry.made
  /\ relayed' = [seen |-> TRUE, from |-> id, kind |-> kind,
                 registered |-> \E n \in NodeNames : registry.nodes[n].id = id,
                 reemitted |-> id \in registry.listening]
  /\ UNCHANGED <<coreVars, updated, poolObj, emitted, registry, vdestroy>>

NextRegistry ==
  \/ \E name \in NodeNames, endpoint \in Endpoints : addNode(name, endpoint)
  \/ \E name \in NodeNames : removeNode(name)
  \/ close
  \/ \E id \in 1..MaxNodeObjs, kind \in EventKinds : NodeEmits(id, kind)

SpecRegistry == InitFresh /\ [][NextRegistry]_vars

\* ------------------------------------------------ Volume.destroy
\* the answers of a node to a destroy call
DestroyAnswers == {"OK", "NOT_FOUND", "INTERNAL"}

\* nexus.destroy() and replica.destroy() resolve: NOT_FOUND counts as destroyed
Resolves(answer) == answer \in {"OK", "NOT_FOUND"}

\* a call sent to a node, and its answer
Issued(target) == [op |-> "call", target |-> target, answer |-> ""]
Answered(target, answer) == [op |-> "answer", target |-> target, answer |-> answer]

\* Volume.destroy: Object.values(this.replicas).map(r => r.destroy()), then
\* await Promise.all(promises)
destroyReplicas(d, reps) ==
  [d EXCEPT !.pc = IF reps = <<>> THEN "returned" ELSE "replicas",
            !.pending = ReplicaNodes(reps),
            !.log = @ \o [i \in 1..Len(reps) |-> Issued(reps[i].node)]]

\* a mutant of destroy: the destroy of the nexus is not awaited
destroyStartNoAwait(d, reps, nex) ==
  IF nex.exists
  THEN destroyReplicas([d EXCEPT !.hadNexus = TRUE, !.owned = reps,
                                 !.log = <<Issued("nexus")>>], reps)
  ELSE destroyReplicas([d EXCEPT !.owned = reps], reps)

\* Volume.destroy up to its first await
destroyStart(d, reps, nex) ==
  IF nex.exists
  THEN [d EXCEPT !.pc = "nexus", !.hadNexus = TRUE, !.owned = reps,
                 !.log = <<Issued("nexus")>>]
  ELSE destroyReplicas([d EXCEPT !.owned = reps], reps)

\* volume.destroy() is called
VolumeDestroy ==
  /\ vdestroy.pc = "none"
  /\ vol.exists
  /\ vdestroy' = destroyStart(NoDestroy, replicas, nexus)
  /\ UNCHANGED <<coreVars, updated, poolObj, emitted, registry, relayed>>

\* await this.nexus.destroy() settles; the 'nexus del' event reaches Volume.delNexus
VolumeDestroyNexusDone(answer) ==
  LET d == [vdestroy EXCEPT !.log = Append(@, Answered("nexus", answer))]
  IN /\ vdestroy.pc = "nexus"
     /\ nexus' = IF Resolves(answer) THEN NoNexus ELSE nexus
     /\ vdestroy' = IF Resolves(answer) THEN destroyReplicas(d, replicas)
                    ELSE [d EXCEPT !.pc = "threw"]
     /\ UNCHANGED <<pools, chosen, vol, replicas, lock, reqs, destroys, failures, settled, del,
                    ready, call, listVars, updated, poolObj, emitted, registry, relayed, vobj>>

\* one replica.destroy() settles; the 'replica del' event reaches
\* Volume.delReplica; Promise.all rejects with the first rejection and
\* resolves with the last resolution
VolumeDestroyReplicaDone(n, answer) ==
  LET left == vdestroy.pending \ {n}
      gone == Resolves(answer) /\ HasReplica(replicas, n)
  IN /\ vdestroy.pc \in {"replicas", "threw"}
     /\ n \in vdestroy.pending
     /\ replicas' = IF gone THEN delReplica(replicas, n) ELSE replicas
     /\ pools' = IF gone
                 THEN [pools EXCEPT ![ReplicaOn(replicas, n).pool].replicas = @ - 1]
                 ELSE pools
     /\ vdestroy' = [vdestroy EXCEPT
          !.pending = left,
          !.log = Append(@, Answered(n, answer)),
          !.pc = IF @ = "threw" \/ ~Resolves(answer) THEN "threw"
                 ELSE IF left = {} THEN "returned" ELSE @]
     /\ UNCHANGED <<chosen, vol, nexus, lock, reqs, destroys, failures, settled, del,
                    ready, call, listVars, updated, poolObj, emitted, registry, relayed, vobj>>

NextVolumeDestroy ==
  \/ VolumeDestroy
  \/ \E answer \in DestroyAnswers : VolumeDestroyNexusDone(answer)
  \/ \E n \in Nodes, answer \in DestroyAnswers : VolumeDestroyReplicaDone(n, answer)

SpecVolumeDestroy == InitImported /\ [][NextVolumeDestroy]_vars

\* ------------------------------------------------ Volume: nexus events
\* the states a nexus reports
NexusStates == {"ONLINE", "DEGRADED", "FAULTED"}

NexusObjs == 1..MaxNexusObjs

\* a mutant of modNexus: the state is taken over without a look at this.nexus
modNexusAlways(v, id, state) == [v EXCEPT !.state = state, !.reason = ""]

\* Volume.newNexus(nexus)
newNexus(v, id, state) ==
  IF v.nexus # 0 THEN v
  ELSE [v EXCEPT !.nexus = id, !.state = state, !.reason = ""]

\* Volume.modNexus(nexus); the assert throws for another nexus object
modNexus(v, id, state) ==
  IF v.nexus = 0 THEN v
  ELSE IF v.nexus # id THEN v
  ELSE [v EXCEPT !.state = state, !.reason = ""]

\* Volume.delNexus(nexus); the assert throws for another nexus object
delNexus(v, id) ==
  IF v.nexus = 0 THEN v
  ELSE IF v.nexus # id THEN v
  ELSE [v EXCEPT !.nexus = 0, !.state = "PENDING", !.reason = "The volume is missing nexus"]

\* the registry delivers 'nexus new' to the volume
VolumeNewNexus(id, state) ==
  /\ vobj' = [newNexus(vobj, id, state) EXCEPT
                !.last = [op |-> "newNexus", id |-> id, state |-> state]]
  /\ UNCHANGED otherVars

\* the registry delivers 'nexus mod' to the volume
VolumeModNexus(id, state) ==
  /\ vobj' = [modNexus(vobj, id, state) EXCEPT
                !.last = [op |-> "modNexus", id |-> id, state |-> state]]
  /\ UNCHANGED otherVars

\* the registry delivers 'nexus del' to the volume
VolumeDelNexus(id) ==
  /\ vobj' = [delNexus(vobj, id) EXCEPT !.last = [op |-> "delNexus", id |-> id, state |-> ""]]
  /\ UNCHANGED otherVars

\* _ensureNexus finds no nexus and awaits node.createNexus
VolumeCreateNexus ==
  /\ vobj.nexus = 0
  /\ ~vobj.creating
  /\ vobj' = [vobj EXCEPT !.creating = TRUE, !.last = [op |-> "createNexus", id |-> 0, state |-> ""]]
  /\ UNCHANGED otherVars

\* node.createNexus returns the nexus object (this.nexus = await ...) or throws
VolumeCreateNexusDone(id, ok) ==
  /\ vobj.creating
  /\ vobj' = [vobj EXCEPT !.creating = FALSE,
                          !.nexus = IF ok THEN id ELSE @,
                          !.last = [op |-> "created", id |-> id, state |-> ""]]
  /\ UNCHANGED otherVars

NextVolumeEvents ==
  \/ \E id \in NexusObjs, state \in NexusStates : VolumeNewNexus(id, state)
  \/ \E id \in NexusObjs, state \in NexusStates : VolumeModNexus(id, state)
  \/ \E id \in NexusObjs : VolumeDelNexus(id)
  \/ VolumeCreateNexus
  \/ \E id \in NexusObjs, ok \in BOOLEAN : VolumeCreateNexusDone(id, ok)

\* a Volume object that receives the nexus events of the registry in any order
SpecVolumeEvents == InitFresh /\ [][NextVolumeEvents]_vars

\* ================================================================ claims

\* ---- volume reconcile
\* request r returns success in this step
Returned(r) ==
  /\ reqs[r].pc # "done"
  /\ reqs'[r].pc = "done"
  /\ reqs'[r].result = "OK"

\* request r returns success from a run of ensure() in this step
EnsureReturned(r) == Returned(r) /\ reqs'[r].ran

\* request r enters ensure() in this step, the parameters of the volume unchanged
EnsureRerun(r) ==
  /\ ~reqs[r].ran
  /\ reqs'[r].ran
  /\ vol.exists
  /\ (reqs'[r].kind = "ensure" \/ update(vol, reqs'[r].spec) = vol)

UriSet(reps) == {Uri(reps[i]) : i \in 1..Len(reps)}

Running == {r \in ReqIds : reqs[r].pc \in RunningPcs}

\* C1: when a CreateVolume call with replica count n returns success, the volume
\* holds exactly n replicas and its nexus exists.
C1_CreateVolumeExactCount ==
  [][\A r \in ReqIds :
       Returned(r) /\ reqs'[r].kind = "create" =>
         /\ Len(replicas') = reqs'[r].spec.count
         /\ nexus'.exists]_vars

C3_OneEnsureAtATime == Cardinality(Running) <= 1

\* C3 witness: one request is inside ensure(), awaiting an RPC, while another
\* CreateVolume request for the volume waits for the lock.
C3_Witness ==
  \E r, q \in ReqIds :
    /\ reqs[r].pc \in RunningPcs
    /\ reqs[q].pc = "waitLock" /\ reqs[q].kind = "create"
    /\ lock = r

\* C4: DeleteVolume has no destroy of the nexus or of a replica under way while
\* an ensure() of the volume is in flight.
C4_DeleteWaitsForEnsure == ~(del.pc \in {"nexus", "replica"} /\ Running # {})

\* C5: ensure() run again with unchanged parameters on the state a successful
\* ensure() left issues no call and leaves replicas, nexus and size unchanged.
C5_EnsureIdempotent ==
  [][\A r \in ReqIds :
       settled /\ destroys = {} /\ EnsureRerun(r) =>
         /\ reqs'[r].pc = "done"
         /\ <<vol', replicas', nexus'>> = <<vol, replicas, nexus>>]_vars

\* C6: when ensure() returns success, the URIs of the children of the nexus are
\* a subset of the URIs of the replicas of the volume.
C6_ChildrenAreReplicas ==
  [][\A r \in ReqIds :
       EnsureReturned(r) /\ nexus'.exists => nexus'.children \subseteq UriSet(replicas')]_vars

\* C7: when ensure() returns success, the volume holds at most replicaCount
\* replicas.
C7_AtMostReplicaCount ==
  [][\A r \in ReqIds : EnsureReturned(r) => Len(replicas') <= vol'.replicaCount]_vars

ResultPairs == {<<i, j>> \in (1..Len(chosen.result)) \X (1..Len(chosen.result)) : i < j}

\* C9: choosePools(b, must, should) returns no two pools on the same node, every
\* returned pool has freeBytes >= b, and when must is non-empty every returned
\* pool's node is in must.
C9_ChoosePoolsSound ==
  chosen.called =>
    /\ \A ij \in ResultPairs :
         pools[chosen.result[ij[1]]].node # pools[chosen.result[ij[2]]].node
    /\ \A i \in 1..Len(chosen.result) :
         /\ pools[chosen.result[i]].capacity - pools[chosen.result[i]].used
              >= chosen.requiredBytes
         /\ (chosen.mustNodes # {} => pools[chosen.result[i]].node \in chosen.mustNodes)

\* C9 witness: a call with a non-empty must list that returned a pool of a node
\* on which a second pool was suitable too, and that left out a pool too small.
C9_Witness ==
  /\ chosen.called
  /\ chosen.mustNodes # {}
  /\ Len(chosen.result) >= 1
  /\ \E p \in PoolIds \ SeqToSet(chosen.result) :
       /\ PoolSuitable(p, chosen.requiredBytes, chosen.mustNodes)
       /\ pools[p].node = pools[chosen.result[1]].node
  /\ \E p \in PoolIds : isAccessible(p) /\ freeBytes(p) < chosen.requiredBytes

\* C10 as stated: ONLINE before DEGRADED, then fewer replicas, then more free
\* bytes, and shouldNodes membership only as the last tiebreaker; no OFFLINE or
\* FAULTED pool in the result.
C10_ShouldNodesLast ==
  chosen.called =>
    /\ \A i \in 1..Len(chosen.result) :
         pools[chosen.result[i]].state \in {"POOL_ONLINE", "POOL_DEGRADED"}
    /\ \A ij \in ResultPairs :
         LET a == pools[chosen.result[ij[1]]]
             b == pools[chosen.result[ij[2]]]
             aOn == a.state = "POOL_ONLINE"
             bOn == b.state = "POOL_ONLINE"
             aFree == a.capacity - a.used
             bFree == b.capacity - b.used
             aPref == a.node \in chosen.shouldNodes
             bPref == b.node \in chosen.shouldNodes
         IN /\ (bOn => aOn)
            /\ (aOn = bOn => a.replicas <= b.replicas)
            /\ (aOn = bOn /\ a.replicas = b.replicas => aFree >= bFree)
            /\ (aOn = bOn /\ a.replicas = b.replicas /\ aFree = bFree => (bPref => aPref))

\* C10 amended: a pool on a node in shouldNodes comes before one that is not;
\* among pools equal in that, ONLINE before DEGRADED, then fewer replicas, then
\* more free bytes; no OFFLINE or FAULTED pool in the result.
C10_ShouldNodesFirst ==
  chosen.called =>
    /\ \A i \in 1..Len(chosen.result) :
         pools[chosen.result[i]].state \in {"POOL_ONLINE", "POOL_DEGRADED"}
    /\ \A ij \in ResultPairs :
         LET a == pools[chosen.result[ij[1]]]
             b == pools[chosen.result[ij[2]]]
             aOn == a.state = "POOL_ONLINE"
             bOn == b.state = "POOL_ONLINE"
             aFree == a.capacity - a.used
             bFree == b.capacity - b.used
             aPref == a.node \in chosen.shouldNodes
             bPref == b.node \in chosen.shouldNodes
         IN /\ (bPref => aPref)
            /\ (aPref = bPref => (bOn => aOn))
            /\ (aPref = bPref /\ aOn = bOn => a.replicas <= b.replicas)
            /\ (aPref = bPref /\ aOn = bOn /\ a.replicas = b.replicas => aFree >= bFree)

\* C10 witness: a DEGRADED pool on a preferred node returned before an ONLINE
\* pool with more free space, and an inaccessible pool left out.
C10_Witness ==
  /\ chosen.called
  /\ Len(chosen.result) >= 2
  /\ pools[chosen.result[1]].state = "POOL_DEGRADED"
  /\ pools[chosen.result[1]].node \in chosen.shouldNodes
  /\ pools[chosen.result[2]].state = "POOL_ONLINE"
  /\ pools[chosen.result[2]].node \notin chosen.shouldNodes
  /\ freeBytes(chosen.result[2]) > freeBytes(chosen.result[1])
  /\ \E p \in PoolIds : pools[p].state \in {"POOL_OFFLINE", "POOL_FAULTED"}

\* C11: choosePools returns every pool on a node in shouldNodes before every
\* pool on a node that is not in shouldNodes, and when a suitable pool on a node
\* in shouldNodes exists the first pool returned is on such a node, whatever the
\* states and the free space of the pools.
C11_PreferredNodeFirst ==
  chosen.called =>
    /\ \A ij \in ResultPairs :
         pools[chosen.result[ij[2]]].node \in chosen.shouldNodes
           => pools[chosen.result[ij[1]]].node \in chosen.shouldNodes
    /\ (\E p \in PoolIds : /\ PoolSuitable(p, chosen.requiredBytes, chosen.mustNodes)
                            /\ pools[p].node \in chosen.shouldNodes)
         => /\ chosen.result # <<>>
            /\ pools[chosen.result[1]].node \in chosen.shouldNodes

\* C11 witness: the pool returned first is on a preferred node, DEGRADED, with
\* more replicas and less free space than the ONLINE pool returned after it,
\* which is on a node that is not preferred.
C11_Witness ==
  /\ chosen.called
  /\ Len(chosen.result) >= 2
  /\ pools[chosen.result[1]].node \in chosen.shouldNodes
  /\ pools[chosen.result[2]].node \notin chosen.shouldNodes
  /\ pools[chosen.result[1]].state = "POOL_DEGRADED"
  /\ pools[chosen.result[2]].state = "POOL_ONLINE"
  /\ pools[chosen.result[1]].replicas > pools[chosen.result[2]].replicas
  /\ freeBytes(chosen.result[1]) < freeBytes(chosen.result[2])

\* ---- CSI server
\* the free space of the accessible pools among ps
RECURSIVE FreeSum(_)
FreeSum(ps) ==
  IF ps = {} THEN 0
  ELSE LET p == CHOOSE q \in ps : TRUE
       IN (IF isAccessible(p) THEN freeBytes(p) ELSE 0) + FreeSum(ps \ {p})

\* C12: GetCapacity with a kubernetes.io/hostname segment naming node N returns
\* the sum of capacity - used over the accessible pools of N; without such a
\* segment it returns that sum over the accessible pools of all nodes.
C12_CapacityIsAccessibleSum ==
  call.method = "getCapacity" /\ call.code = "OK" =>
    call.value = (IF call.args.given /\ call.args.host # ""
                  THEN FreeSum({p \in PoolIds : pools[p].node = call.args.host})
                  ELSE FreeSum(PoolIds))

\* ---- CSI DeleteVolume
\* a DeleteVolume call starts in this step
DeleteStarts == del'.n = del.n + 1

\* nothing of the volume was ever known: no Volume object, no replica, no nexus
NeverExisted == vol = NoVolume /\ replicas = <<>> /\ ~nexus.exists /\ del.n = 0

\* the targets of the destroys a DeleteVolume call has awaited, in order
TriedTargets(d) == [i \in 1..Len(d.tried) |-> d.tried[i].target]

\* C14: a DeleteVolume call that follows a DeleteVolume call that returned OK,
\* with no other request in between, and a DeleteVolume call for a volume that
\* never existed, find neither nexus nor replicas, issue no destroy and return OK.
C14_DeleteIdempotent ==
  [][DeleteStarts /\ ((del.pc = "done" /\ del.result = "OK") \/ NeverExisted) =>
       /\ del'.pc = "done"
       /\ del'.result = "OK"
       /\ ~del'.hadNexus
       /\ del'.list = <<>>
       /\ del'.tried = <<>>]_vars

\* a volume found at start-up, deleted by a first call that returned OK, and a
\* second call that returned OK
C14_Witness ==
  /\ vol.exists
  /\ replicas = <<>>
  /\ ~nexus.exists
  /\ del.n = 2
  /\ del.pc = "done"
  /\ del.prev = "OK"
  /\ del.result = "OK"

\* C15: when a DeleteVolume call that got to the lookup replies, it has awaited
\* the destroy of the nexus it found and of every replica it found, in this
\* order, whatever the outcome of the earlier destroys, and the reply is INTERNAL
\* if at least one destroy failed and OK if none did.
C15_DeleteTriesAll ==
  del.pc = "done" /\ del.result # "UNAVAILABLE" =>
    /\ TriedTargets(del) = (IF del.hadNexus THEN <<"nexus">> ELSE <<>>) \o del.list
    /\ del.result = (IF \E i \in 1..Len(del.tried) : ~del.tried[i].ok
                     THEN "INTERNAL" ELSE "OK")

\* the first destroy of the call failed, the call went on to the next one and
\* replied INTERNAL
C15_Witness ==
  /\ del.pc = "done"
  /\ Len(del.tried) >= 2
  /\ ~del.tried[1].ok
  /\ del.result = "INTERNAL"

\* ---- CSI publish and unpublish
\* the server takes a request of the method in this step
Starts(method) == call'.n = call.n + 1 /\ call'.method = method

\* the request the server awaits an RPC for gets its reply in this step
Returns(method) == call.method = method /\ call.code = "PENDING" /\ call'.code # "PENDING"

\* the node id is well formed and names the node of the nexus
OnNexusNode(text) ==
  text.scheme = "mayastor" /\ text.node # "" /\ nexus.exists /\ text.node = nexus.node

\* the node id is well formed and names a node other than the node of the nexus
OnOtherNode(text) ==
  text.scheme = "mayastor" /\ text.node # "" /\ nexus.exists /\ text.node # nexus.node

\* C16: a ControllerPublishVolume request for an existing volume that names the
\* node of the nexus (not readonly, capability SINGLE_NODE_WRITER) issues the
\* publish, and the reply is OK whenever the publish returns success or
\* ALREADY_EXISTS, the nexus being published then; a request that names another
\* node is replied INVALID_ARGUMENT.
C16_PublishIdempotent ==
  [][/\ Starts("controllerPublishVolume") /\ ready /\ OnNexusNode(call'.args.nodeId)
        /\ ~call'.args.readonly /\ call'.args.cap.modes = <<"SINGLE_NODE_WRITER">>
          => call'.code = "PENDING"
     /\ Returns("controllerPublishVolume") /\ call'.rpc \in {"OK", "ALREADY_EXISTS"}
          => call'.code = "OK" /\ nexus'.exists /\ nexus'.published
     /\ Starts("controllerPublishVolume") /\ ready /\ OnOtherNode(call'.args.nodeId)
          => call'.code = "INVALID_ARGUMENT"]_vars

\* a publish replied OK is repeated, the publish of the operator returns
\* ALREADY_EXISTS and the reply is OK again
C16_Witness ==
  /\ call.method = "controllerPublishVolume"
  /\ call.prev = <<"controllerPublishVolume", "OK">>
  /\ call.rpc = "ALREADY_EXISTS"
  /\ call.code = "OK"
  /\ nexus.published

\* the request is one of those C17 lists as rejected
PublishRejected(args) ==
  \/ ~nexus.exists
  \/ args.nodeId.scheme # "mayastor"
  \/ args.nodeId.node = ""
  \/ args.nodeId.node # nexus.node
  \/ args.readonly
  \/ ~args.cap.given
  \/ args.cap.modes # <<"SINGLE_NODE_WRITER">>

\* C17: a ControllerPublishVolume request for an unknown volume, with a
\* malformed node id, for a node other than the node of the nexus, with readonly
\* set, or with a missing or unsupported capability gets an error reply at
\* once: the publish is not issued and the nexus stays as it is.
C17_RejectedPublishNoCall ==
  [][Starts("controllerPublishVolume") /\ ready /\ PublishRejected(call'.args) =>
       /\ call'.code \in {"NOT_FOUND", "INVALID_ARGUMENT"}
       /\ call'.rpc = ""
       /\ nexus' = nexus]_vars

\* a readonly publish on the node of an unpublished nexus was rejected
C17_Witness ==
  /\ call.method = "controllerPublishVolume"
  /\ call.code = "INVALID_ARGUMENT"
  /\ call.args.readonly
  /\ OnNexusNode(call.args.nodeId)
  /\ call.args.cap.modes = <<"SINGLE_NODE_WRITER">>
  /\ ~nexus.published

\* C18: ControllerUnpublishVolume replies NOT_FOUND when the volume has no
\* nexus; with a nexus and a well-formed node id it issues the unpublish, of
\* whatever node the id names; and when the unpublish returns success the reply
\* is OK and the nexus is unpublished, also when it was unpublished before.
C18_UnpublishAnyNode ==
  [][/\ Starts("controllerUnpublishVolume") /\ ready /\ ~nexus.exists
          => call'.code = "NOT_FOUND"
     /\ Starts("controllerUnpublishVolume") /\ ready
        /\ (OnNexusNode(call'.args) \/ OnOtherNode(call'.args))
          => call'.code = "PENDING"
     /\ Returns("controllerUnpublishVolume") /\ call'.rpc = "OK"
          => call'.code = "OK" /\ ~nexus'.published]_vars

\* an unpublish replied OK is repeated with the id of another node and is
\* replied OK again
C18_Witness ==
  /\ call.method = "controllerUnpublishVolume"
  /\ call.prev = <<"controllerUnpublishVolume", "OK">>
  /\ OnOtherNode(call.args)
  /\ call.rpc = "OK"
  /\ call.code = "OK"

\* ---- CSI ListVolumes
\* C19: a listing that has reached the page without a token has returned the
\* nexuses of the first request, each once and in the order of the snapshot,
\* in pages of at most maxEntries entries (1000 for maxEntries 0); a listing
\* that is under way has returned the snapshot up to what its paging context
\* holds; and no page of a listing is refused.
C19_ListingIsSnapshot ==
  \A c \in ListClients :
    /\ listings[c].state # "error"
    /\ listings[c].pageOk
    /\ listings[c].state = "done" => listings[c].got = listings[c].snapshot
    /\ listings[c].state = "open" =>
         /\ listings[c].token \in DOMAIN listContexts
         /\ listings[c].got \o listContexts[listings[c].token] = listings[c].snapshot

\* a listing of three pages is complete, the nexuses having changed since its
\* first page, and another listing is under way
C19_Witness ==
  \E c, d \in ListClients :
    /\ listings[c].state = "done"
    /\ listings[c].calls >= 3
    /\ listings[c].snapshot # getNexusList
    /\ listings[d].state = "open"

\* ---- CSI CreateVolume arguments
\* the text is a positive integer: digits only, with a value above zero
IsPositiveInteger(text) ==
  /\ text # <<>>
  /\ \A i \in 1..Len(text) : text[i] \in DigitChars
  /\ parseDigits(text, FALSE, 0).n > 0

\* the request fails validation in one of the ways C20 lists
FailsValidation(args) ==
  \/ args.source
  \/ ~matchPvc(args.name)
  \/ ~args.caps.given
  \/ args.caps.modes = <<>>
  \/ \E i \in 1..Len(args.caps.modes) : args.caps.modes[i] # "SINGLE_NODE_WRITER"
  \/ (args.topology.given
      /\ \E i \in 1..Len(args.topology.requisite) : args.topology.requisite[i].key # HostKey)
  \/ (args.repl # <<>> /\ ~IsPositiveInteger(args.repl))

\* the server takes CreateVolume request r in this step
CreateStarts(r) == reqs[r].pc = "new" /\ reqs'[r].pc # "new" /\ reqs'[r].kind = "create"

\* C20: a CreateVolume request that fails validation is replied
\* INVALID_ARGUMENT at once, ensureVolume is not called and the volume, its
\* replicas and its nexus stay as they are; a request that does not fail
\* validation is not replied INVALID_ARGUMENT at once, whatever the keys of its
\* preferred topology.
C20_InvalidCreateRejected ==
  [][\A r \in ReqIds :
       CreateStarts(r) /\ ready =>
         IF FailsValidation(reqs'[r].args)
         THEN /\ reqs'[r].pc = "done"
              /\ reqs'[r].result = "INVALID_ARGUMENT"
              /\ <<vol', replicas', nexus'>> = <<vol, replicas, nexus>>
         ELSE ~(reqs'[r].pc = "done" /\ reqs'[r].result = "INVALID_ARGUMENT")]_vars

\* ---- CSI server: ready
\* the controller methods behind the checkReady wrapper that reply through call
GatedMethods ==
  {"controllerPublishVolume", "controllerUnpublishVolume", "validateVolumeCapabilities",
   "getCapacity", "controllerGetCapabilities"}

\* what the volume and pool operators hold and the calls they have under way
Operators == <<pools, vol, replicas, nexus, lock, destroys, otherNexus, listContexts,
               nextListContextId>>

\* the server takes a request of one of the methods in this step
StartsOneOf(methods) == call'.n = call.n + 1 /\ call'.method \in methods

\* client c sends a ListVolumes request in this step
ListStarts(c) == listings'[c].calls = listings[c].calls + 1

\* the server is not ready and a request of CreateVolume, DeleteVolume,
\* ListVolumes or of a method of GatedMethods is replied in this step: the
\* reply is UNAVAILABLE
GatedUnavailable ==
  /\ StartsOneOf(GatedMethods) => call'.code = "UNAVAILABLE" /\ ~call'.reached
  /\ \A r \in ReqIds :
       CreateStarts(r) => reqs'[r].pc = "done" /\ reqs'[r].result = "UNAVAILABLE"
  /\ DeleteStarts => del'.pc = "done" /\ del'.result = "UNAVAILABLE" /\ del'.tried = <<>>
  /\ \A c \in ListClients : ListStarts(c) => listings'[c].code = "UNAVAILABLE"

\* a request is replied in this step while the server is not ready
RepliedNotReady ==
  /\ ~ready
  /\ \/ StartsOneOf(GatedMethods \cup UnimplementedMethods)
     \/ \E r \in ReqIds : CreateStarts(r)
     \/ DeleteStarts
     \/ \E c \in ListClients : ListStarts(c)

EnsureEnters(r) == ~reqs[r].ran /\ reqs'[r].ran

\* the replicas the run of ensure() that starts in this step has to create
MissingReplicas == vol'.replicaCount - Len(replicas)

\* the result of choosePools for the volume, without the pools on nodes that
\* host a replica of the volume
RemainingPools ==
  SelectSeq(choosePools(vol'.requiredBytes, vol'.requiredNodes, vol'.preferredNodes),
            LAMBDA p : \A i \in 1..Len(replicas) : replicas[i].node # pools[p].node)

\* C23: a run of ensure() that has to create more replicas than pools remain
\* fails with RESOURCE_EXHAUSTED at once: no createReplica is issued and the
\* size, the replicas and the nexus of the volume stay as they are.
C23_TooFewPools ==
  [][\A r \in ReqIds :
       EnsureEnters(r) /\ MissingReplicas > 0 /\ Len(RemainingPools) < MissingReplicas =>
         /\ reqs'[r].pc = "done"
         /\ reqs'[r].result = "RESOURCE_EXHAUSTED"
         /\ vol'.size = vol.size
         /\ replicas' = replicas
         /\ nexus' = nexus
         /\ pools' = pools]_vars

\* ensure() failed with RESOURCE_EXHAUSTED for a volume with a replica, where
\* choosePools returned enough pools but not enough on nodes without a replica
C23_Witness ==
  \E r \in ReqIds :
    /\ reqs[r].pc = "done"
    /\ reqs[r].ran
    /\ reqs[r].result = "RESOURCE_EXHAUSTED"
    /\ replicas # <<>>
    /\ Len(choosePools(vol.requiredBytes, vol.requiredNodes, vol.preferredNodes))
         >= vol.replicaCount - Len(replicas)

\* ---- Volume.update
\* how often the node occurs in the list
Occurrences(list, n) == Cardinality({i \in 1..Len(list) : list[i] = n})

\* the lists hold the same nodes, whatever their order
SameNodes(a, b) == \A n \in Nodes : Occurrences(a, n) = Occurrences(b, n)

\* C24: update(spec) throws exactly when spec.requiredBytes is above the size
\* of the volume or spec.limitBytes is set and below the size, and then no
\* field of the volume changes; otherwise it returns true exactly when one of
\* replicaCount, preferredNodes, requiredNodes, requiredBytes, limitBytes
\* differs from the stored value, the node lists compared whatever their order,
\* the volume then holds the values of the spec, and the size stays as it is.
C24_UpdateChanged ==
  updated.called =>
    LET v == updated.before
        spec == updated.spec
        differs == \/ v.replicaCount # spec.replicaCount
                   \/ ~SameNodes(v.preferredNodes, spec.preferredNodes)
                   \/ ~SameNodes(v.requiredNodes, spec.requiredNodes)
                   \/ v.requiredBytes # spec.requiredBytes
                   \/ v.limitBytes # spec.limitBytes
    IN /\ updated.threw = (\/ spec.requiredBytes > v.size
                           \/ (spec.limitBytes # 0 /\ spec.limitBytes < v.size))
       /\ updated.threw => updated.after = v /\ ~updated.changed
       /\ ~updated.threw =>
            /\ updated.changed = differs
            /\ updated.after.size = v.size
            /\ updated.after.replicaCount = spec.replicaCount
            /\ SameNodes(updated.after.preferredNodes, spec.preferredNodes)
            /\ SameNodes(updated.after.requiredNodes, spec.requiredNodes)
            /\ updated.after.requiredBytes = spec.requiredBytes
            /\ updated.after.limitBytes = spec.limitBytes

\* update() with the stored preferred nodes in another order and nothing else
\* changed returned false
C24_Witness ==
  /\ updated.called
  /\ ~updated.threw
  /\ ~updated.changed
  /\ updated.spec.preferredNodes = <<"n2", "n1">>

\* update() threw for a spec with a limit below the size
C24_WitnessThrows ==
  /\ updated.called
  /\ updated.threw
  /\ updated.spec.requiredBytes <= updated.before.size

\* ---- Pool
\* how many events of this kind and type the last operation emitted
Emitted(kind, eventType) ==
  Cardinality({i \in 1..Len(emitted) : emitted[i].kind = kind /\ emitted[i].eventType = eventType})

\* C21: a merge emits a 'pool mod' event exactly when state, capacity or used
\* of the new properties differs from the property of the pool, and then one
\* such event; a merge that differs in the disks only, or in nothing, emits none.
C21_PoolModOnVolatile ==
  poolObj.op.name = "merge" =>
    Emitted("pool", "mod") =
      (IF \/ poolObj.op.before.state # poolObj.op.args.state
          \/ poolObj.op.before.capacity # poolObj.op.args.capacity
          \/ poolObj.op.before.used # poolObj.op.args.used
       THEN 1 ELSE 0)

\* a merge with other disks and nothing else changed was made, no event
C21_Witness ==
  /\ poolObj.op.name = "merge"
  /\ poolObj.op.before.disks # poolObj.op.args.disks
  /\ emitted = <<>>

\* a merge with another state emitted its event
C21_WitnessMod ==
  /\ poolObj.op.name = "merge"
  /\ poolObj.op.before.state # poolObj.op.args.state
  /\ Emitted("pool", "mod") = 1

\* the destroy of the pool has returned after this answer of the node
Destroyed(outcome) ==
  /\ poolObj.op.name = "destroy"
  /\ poolObj.pc = "idle"
  /\ poolObj.op.outcome = outcome

\* C26: a destroy of a pool the node answered with success or NOT_FOUND
\* succeeds, the node is left without the pool, one 'replica del' event was
\* emitted for each replica the pool owned, and the 'pool del' event came after
\* all of them.
C26_PoolDestroy ==
  (Destroyed("OK") \/ Destroyed("NOT_FOUND")) =>
    /\ poolObj.op.result = "ok"
    /\ ~poolObj.bound
    /\ Len(emitted) = Len(poolObj.op.owned) + 1
    /\ \A i \in 1..Len(poolObj.op.owned) :
         \E j \in 1..(Len(emitted) - 1) :
           emitted[j] = Event("replica", "del", poolObj.op.owned[i].uuid)
    /\ emitted[Len(emitted)] = Event("pool", "del", "pool")

\* a pool with two replicas was destroyed
C26_Witness ==
  /\ Destroyed("OK")
  /\ Len(poolObj.op.owned) = 2

\* a pool with a replica was destroyed though the node did not know it
C26_WitnessNotFound ==
  /\ Destroyed("NOT_FOUND")
  /\ Len(poolObj.op.owned) >= 1
  /\ ~poolObj.bound

\* ---- Registry
\* C22: an event of a node object is re-emitted by the registry exactly when
\* the object is registered at that moment: every node, pool, replica and
\* nexus event of a registered node is re-emitted, and none of a node object
\* that removeNode, close or a replacing addNode has taken out.
C22_RelayWhileRegistered ==
  relayed.seen => (relayed.reemitted <=> relayed.registered)

\* a removed node object emitted an event after another node was registered,
\* and the registry kept silent
C22_Witness ==
  /\ relayed.seen
  /\ ~relayed.registered
  /\ ~relayed.reemitted
  /\ \E n \in NodeNames : registry.nodes[n].id # 0

\* the event of a registered node was re-emitted
C22_WitnessRelayed ==
  /\ relayed.seen
  /\ relayed.registered
  /\ relayed.reemitted
  /\ relayed.kind = "nexus"

\* ---- Volume.destroy
\* the place of the entry in the log of the destroy, 0 if it is not there
LogIndex(entry) ==
  IF \E i \in 1..Len(vdestroy.log) : vdestroy.log[i] = entry
  THEN CHOOSE i \in 1..Len(vdestroy.log) : vdestroy.log[i] = entry
  ELSE 0

\* the nexus of the volume was destroyed, the node knowing it or not
NexusDestroyed ==
  \/ LogIndex(Answered("nexus", "OK")) # 0
  \/ LogIndex(Answered("nexus", "NOT_FOUND")) # 0

\* the destroy of the replica on the node has completed
ReplicaDestroyed(n) ==
  \/ LogIndex(Answered(n, "OK")) # 0
  \/ LogIndex(Answered(n, "NOT_FOUND")) # 0

\* C25: destroy() sends no destroy of a replica before the destroy of the
\* nexus, when there is a nexus, has completed; once past the nexus it has sent
\* a destroy for every replica of the volume; it has returned only when every
\* one of them has completed; and when no answer is an error other than
\* NOT_FOUND it does not fail.
C25_DestroyOrder ==
  LET nodes == ReplicaNodes(vdestroy.owned)
      answers == {vdestroy.log[i].answer :
                    i \in {j \in 1..Len(vdestroy.log) : vdestroy.log[j].op = "answer"}}
  IN /\ \A n \in nodes :
          (vdestroy.hadNexus /\ LogIndex(Issued(n)) # 0) =>
             /\ NexusDestroyed
             /\ \E i \in 1..(LogIndex(Issued(n)) - 1) :
                  /\ vdestroy.log[i].op = "answer"
                  /\ vdestroy.log[i].target = "nexus"
     /\ vdestroy.pc \in {"replicas", "returned"} =>
          \A n \in nodes : LogIndex(Issued(n)) # 0
     /\ vdestroy.pc = "returned" =>
          /\ vdestroy.pending = {}
          /\ \A n \in nodes : ReplicaDestroyed(n)
          /\ vdestroy.hadNexus => NexusDestroyed
          /\ replicas = <<>> /\ ~nexus.exists
     /\ (answers \subseteq {"OK", "NOT_FOUND"}) => vdestroy.pc # "threw"

\* a volume with a nexus and two replicas was destroyed, one of the replicas
\* already gone from its node
C25_Witness ==
  /\ vdestroy.pc = "returned"
  /\ vdestroy.hadNexus
  /\ Len(vdestroy.owned) = 2
  /\ \E n \in Nodes : LogIndex(Answered(n, "NOT_FOUND")) # 0

\* ---- ensure() after a failure, the nexus step and the trim
\* request q ran ensure() and the run failed on the failure of a call
FailedOnRpc(q) ==
  /\ reqs[q].pc = "done"
  /\ reqs[q].ran
  /\ reqs[q].failed
  /\ reqs[q].result = "INTERNAL"

\* C27: when a run of ensure() has failed on the failure of a call, a later run
\* in which no call fails returns success only with exactly replicaCount
\* replicas and a nexus whose children are exactly the URIs of those replicas.
C27_RetryConverges ==
  [][\A r, q \in ReqIds :
       (q # r /\ FailedOnRpc(q) /\ EnsureReturned(r) /\ ~reqs'[r].failed) =>
         /\ Len(replicas') = vol'.replicaCount
         /\ nexus'.exists
         /\ nexus'.children = UriSet(replicas')]_vars

\* request r sends the call of this step of ensure() in this step
Sends(r, pc) == reqs[r].pc # pc /\ reqs'[r].pc = pc

\* C28: when ensure() creates the nexus of a volume that has none, the node of
\* the createNexus call is the node of the highest-ranked replica and the
\* children are the URIs of the ranked replicas cut to replicaCount.
C28_NexusOnBestReplica ==
  [][\A r \in ReqIds :
       Sends(r, "createNexus") =>
         /\ reqs'[r].target = reqs'[r].rset[1]
         /\ reqs'[r].kids = {Uri(ReplicaOn(replicas', n)) : n \in SeqToSet(reqs'[r].rset)}]_vars

\* the call request r awaits is answered with a failure in this step
CallFails(r) == reqs'[r] # reqs[r] /\ failures' # failures

\* C29: in a run of ensure() on a volume with a nexus no removeReplica call
\* follows an addReplica call; a failed removeReplica does not end the run with
\* an error; a failed addReplica ends it with INTERNAL, the children of the
\* nexus as they were.
C29_RemoveBeforeAdd ==
  [][\A r \in ReqIds :
       /\ reqs[r].pc = "addChild" => reqs'[r].pc \in {"addChild", "trim", "done"}
       /\ reqs[r].pc = "trim" => reqs'[r].pc \in {"trim", "done"}
       /\ (reqs[r].pc = "removeChild" /\ CallFails(r)) =>
            /\ nexus' = nexus
            /\ \/ reqs'[r].pc \in {"removeChild", "addChild", "trim"}
               \/ reqs'[r].pc = "done" /\ reqs'[r].result = "OK"
       /\ (reqs[r].pc = "addChild" /\ CallFails(r)) =>
            /\ reqs'[r].pc = "done"
            /\ reqs'[r].result = "INTERNAL"
            /\ nexus' = nexus]_vars

\* a run whose removeReplica call failed has gone on to add a child
C29_Witness ==
  \E r \in ReqIds :
    /\ reqs[r].pc = "addChild"
    /\ reqs[r].failed
    /\ nexus.exists
    /\ \E u \in nexus.children :
         /\ FindByUri(replicas, u) # 0
         /\ u \notin SeqToSet(UrisOfSet(replicas, reqs[r].rset))

\* a run has ended with INTERNAL on a failed addReplica
C29_WitnessAddFailed ==
  \E r \in ReqIds :
    /\ reqs[r].pc = "done" /\ reqs[r].result = "INTERNAL" /\ reqs[r].failed
    /\ nexus.exists
    /\ \E n \in SeqToSet(reqs[r].rset) :
         HasReplica(replicas, n) /\ Uri(ReplicaOn(replicas, n)) \notin nexus.children

\* C30: the trim of ensure() sends a destroy to exactly the replicas of the
\* volume whose URI is not a child of the nexus, never to one whose URI is a
\* child; it starts only when the nexus exists and holds every ranked replica
\* as a child; and a run that has reached the trim returns success, whatever
\* the destroys answer.
C30_TrimNonChildren ==
  [][\A r \in ReqIds :
       /\ Sends(r, "trim") =>
            /\ nexus'.exists
            /\ reqs'[r].await =
                 {n \in ReplicaNodes(replicas') :
                    Uri(ReplicaOn(replicas', n)) \notin nexus'.children}
            /\ reqs'[r].await # {}
            /\ destroys' = destroys \cup reqs'[r].await
            /\ \A n \in SeqToSet(reqs'[r].rset) :
                 Uri(ReplicaOn(replicas', n)) \in nexus'.children
       /\ (EnsureReturned(r) /\ reqs[r].pc # "trim") =>
            \A n \in ReplicaNodes(replicas') :
              Uri(ReplicaOn(replicas', n)) \in nexus'.children
       /\ (reqs[r].pc = "trim" /\ reqs'[r].pc = "done") => reqs'[r].result = "OK"]_vars

\* a run has returned success though a destroy of its trim failed, the replica
\* still there
C30_Witness ==
  \E r \in ReqIds :
    /\ reqs[r].pc = "done" /\ reqs[r].result = "OK" /\ reqs[r].ran /\ reqs[r].failed
    /\ nexus.exists
    /\ \E n \in ReplicaNodes(replicas) : Uri(ReplicaOn(replicas, n)) \notin nexus.children

\* a run awaits the destroy of a replica that is not a child of the nexus
C30_WitnessTrim ==
  \E r \in ReqIds :
    /\ reqs[r].pc = "trim"
    /\ reqs[r].await # {}
    /\ Len(replicas) = 2

\* ---- sizes
\* C31: every createReplica call of ensure() goes to a pool whose free bytes
\* are at least the size of the volume, the size the replica is asked with.
C31_PoolFitsReplica ==
  \A r \in ReqIds :
    reqs[r].pc = "createReplica" => freeBytes(reqs[r].cands[reqs[r].ci]) >= vol.size

\* C33: the step that fixes the size of a volume sets it to the smaller of the
\* smallest free space among the candidate pools and limitBytes (requiredBytes
\* without a limit), and that size is at least requiredBytes and, with a
\* limit, at most limitBytes.
C33_SizeWithinRange ==
  [][(vol.size = 0 /\ vol'.size # 0) =>
       LET cap == IF vol'.limitBytes # 0 THEN vol'.limitBytes ELSE vol'.requiredBytes
           free == MinFree(Candidates(vol', replicas))
       IN /\ vol'.size = (IF free < cap THEN free ELSE cap)
          /\ vol'.requiredBytes <= vol'.size
          /\ (vol'.limitBytes # 0 => vol'.size <= vol'.limitBytes)]_vars

\* C34: once the size of a volume is set no step changes it while the volume
\* exists, and every replica made afterwards is requested with that size.
C34_SizeIsFixed ==
  [][(vol.exists /\ vol.size # 0 /\ vol'.exists) =>
       /\ vol'.size = vol.size
       /\ \A i \in 1..Len(replicas') :
            (\A j \in 1..Len(replicas) : replicas[j] # replicas'[i])
              => replicas'[i].size = vol.size]_vars

\* a later request with fewer required bytes has added a second replica to a
\* volume whose size was fixed by the first request
C34_Witness ==
  /\ reqs[1].pc = "done" /\ reqs[1].result = "OK"
  /\ reqs[2].pc = "done" /\ reqs[2].result = "OK" /\ reqs[2].ran
  /\ Len(replicas) = 2
  /\ vol.size > vol.requiredBytes
  /\ \A i \in 1..Len(replicas) : replicas[i].size = vol.size

\* C35: _createReplicas starts at the first of the candidates in the order of
\* choosePools with the number of missing replicas to make; after each answer
\* it goes to the next candidate exactly when candidates are left and
\* replicas are still missing, a failed call included; and it ends in
\* INTERNAL exactly when the candidates are used up with replicas missing.
C35_CreateInOrder ==
  [][\A r \in ReqIds :
       LET f == reqs[r]
           g == reqs'[r]
           left == IF Len(replicas') > Len(replicas) THEN f.count - 1 ELSE f.count
       IN /\ (f.pc # "createReplica" /\ g.pc = "createReplica") =>
               /\ g.cands = Candidates(vol', replicas)
               /\ g.ci = 1
               /\ g.count = vol'.replicaCount - Len(replicas)
          /\ (f.pc = "createReplica" /\ g # f) =>
               /\ (g.pc = "createReplica") <=> (f.ci < Len(f.cands) /\ left > 0)
               /\ (g.pc = "createReplica") =>
                    (g.cands = f.cands /\ g.ci = f.ci + 1 /\ g.count = left)
               /\ (g.pc = "done" /\ g.result = "INTERNAL")
                    <=> (f.ci >= Len(f.cands) /\ left > 0)]_vars

\* a request for two replicas has made them on the second and the third
\* candidate after its first createReplica failed
C35_Witness ==
  /\ reqs[1].pc = "done" /\ reqs[1].result = "OK" /\ reqs[1].failed
  /\ reqs[2].pc = "new"
  /\ Len(replicas) = 2
  /\ vol.replicaCount = 2

\* a request for two replicas ended in INTERNAL with one replica made
C35_WitnessExhausted ==
  /\ reqs[1].pc = "done" /\ reqs[1].result = "INTERNAL"
  /\ reqs[2].pc = "new"
  /\ Len(replicas) = 1
  /\ vol.replicaCount = 2

\* ---- share protocols
\* C32: a failed setShare ends ensure() with INTERNAL in that step, with the
\* nexus, its children, the replicas and the destroy calls as they were; and
\* ensure() never comes back to setShare from the calls on the nexus or from
\* the trim, so none of them has happened in the run before.
C32_ShareFailureIsFatal ==
  [][\A r \in ReqIds :
       /\ (reqs[r].pc = "setShare" /\ CallFails(r)) =>
            /\ reqs'[r].pc = "done" /\ reqs'[r].result = "INTERNAL"
            /\ nexus' = nexus
            /\ replicas' = replicas
            /\ destroys' = destroys
       /\ (reqs[r].pc \in {"createNexus", "removeChild", "addChild", "trim"} =>
             reqs'[r].pc # "setShare")]_vars

\* a run has ended in INTERNAL at a ranked replica that still has the wrong
\* share, and there is no nexus
C32_Witness ==
  \E r \in ReqIds :
    /\ reqs[r].pc = "done" /\ reqs[r].result = "INTERNAL" /\ reqs[r].failed
    /\ ~nexus.exists
    /\ \E i \in 1..Len(reqs[r].rset) :
         /\ HasReplica(replicas, reqs[r].rset[i])
         /\ WantedShare(ReplicaOn(replicas, reqs[r].rset[i]), reqs[r].nnode) # ""

\* ---- ranking
\* the criteria of a replica, the most important first
RankKey(rep, v, nex) ==
  <<IF v.requiredNodes # {} /\ rep.node \in v.requiredNodes THEN 1 ELSE 0,
    IF rep.state = "ONLINE" THEN 1 ELSE 0,
    IF v.preferredNodes # {} /\ rep.node \in v.preferredNodes THEN 1 ELSE 0,
    IF nex.exists /\ rep.node = nex.node THEN 1 ELSE 0>>

\* a is not below b in the lexicographic order
LexGE(a, b) ==
  \/ a = b
  \/ \E k \in 1..Len(a) : a[k] > b[k] /\ \A m \in 1..(k - 1) : a[m] = b[m]

\* C36: the ranked set that ensure() computes holds the first replicaCount
\* replicas in the lexicographic order of (on a required node, ONLINE, on a
\* preferred node, on the node of the nexus), the best first; so no replica
\* on a required node is left out while one off the required nodes is in.
C36_RankIsLexicographic ==
  [][\A r \in ReqIds :
       (reqs'[r].rset # reqs[r].rset /\ reqs'[r].rset # <<>>) =>
         LET rs == reqs'[r].rset
             key(n) == RankKey(ReplicaOn(replicas', n), vol', nexus')
             out == ReplicaNodes(replicas') \ {rs[i] : i \in 1..Len(rs)}
         IN /\ Len(rs) = (IF Len(replicas') < vol'.replicaCount THEN Len(replicas')
                          ELSE vol'.replicaCount)
            /\ \A i \in 1..Len(rs) : HasReplica(replicas', rs[i])
            /\ \A i \in 1..Len(rs), j \in 1..Len(rs) :
                 i < j => LexGE(key(rs[i]), key(rs[j]))
            /\ \A i \in 1..Len(rs), n \in out : LexGE(key(rs[i]), key(n))
            /\ \A i \in 1..Len(rs), n \in out :
                 n \in vol'.requiredNodes => rs[i] \in vol'.requiredNodes]_vars

\* the replica on the required node is the ranked set although it is offline
\* and the other replica is online, on the preferred node and next to the nexus
C36_Witness ==
  \E r \in ReqIds :
    /\ reqs[r].rset = <<"n2">>
    /\ vol.requiredNodes = {"n2"} /\ vol.preferredNodes = {"n3"}
    /\ HasReplica(replicas, "n2") /\ ReplicaOn(replicas, "n2").state = "OFFLINE"
    /\ HasReplica(replicas, "n3") /\ ReplicaOn(replicas, "n3").state = "ONLINE"
    /\ nexus.exists /\ nexus.node = "n3"

\* ---- paging tokens
\* a ListVolumes request of client c is served in the step
Listed(c) == listings'[c].calls = listings[c].calls + 1

\* C37: a ListVolumes request whose startingToken names no stored context is
\* replied INVALID_ARGUMENT and leaves the stored contexts as they are; a
\* token that names a context takes it out, so it resumes one page at most;
\* and a context is stored only under the token of a fresh id.
C37_UnknownTokenRejected ==
  [][\A c \in ListClients :
       Listed(c) =>
         LET token == listings'[c].asked
         IN /\ (token # <<>> /\ token \notin DOMAIN listContexts) =>
                 /\ listings'[c].code = "INVALID_ARGUMENT"
                 /\ listContexts' = listContexts
            /\ (token # <<>> /\ token \in DOMAIN listContexts) =>
                 token \notin DOMAIN listContexts'
            /\ \A k \in DOMAIN listContexts' \ DOMAIN listContexts :
                 /\ k = toString(nextListContextId)
                 /\ nextListContextId' = nextListContextId + 1]_vars

\* C38: a paging context that is stored is removed again at some later time,
\* also when its token is never presented.
C38_ContextsExpire ==
  \A id \in 1..MaxContextId :
    (toString(id) \in DOMAIN listContexts) ~> (toString(id) \notin DOMAIN listContexts)

\* ---- volume state
\* C39: a volume without a nexus is PENDING: it is constructed so, every
\* reachable state has it, a delNexus of the attached nexus detaches it and
\* makes the volume PENDING, and the state changes to the state of a nexus
\* only in a newNexus or modNexus that leaves that nexus attached.
C39_NoNexusIsPending ==
  /\ (vobj.nexus = 0 /\ vobj.state = "PENDING")
  /\ [](vobj.nexus = 0 => vobj.state = "PENDING")
  /\ [][/\ (vobj'.last.op = "delNexus" /\ vobj'.last # vobj.last /\ vobj.nexus = vobj'.last.id)
            => (vobj'.nexus = 0 /\ vobj'.state = "PENDING")
        /\ (vobj'.state # vobj.state /\ vobj'.state # "PENDING") =>
             /\ vobj'.last.op \in {"newNexus", "modNexus"}
             /\ vobj'.nexus = vobj'.last.id
             /\ vobj'.state = vobj'.last.state]_vars

\* the volume has lost the nexus it had and is PENDING again
C39_Witness ==
  /\ vobj.last.op = "delNexus"
  /\ vobj.nexus = 0
  /\ vobj.state = "PENDING"
  /\ vobj.reason = "The volume is missing nexus"

\* a modNexus for a volume without nexus left it PENDING
C39_WitnessIgnored ==
  /\ vobj.last.op = "modNexus"
  /\ vobj.nexus = 0
  /\ vobj.state = "PENDING"

\* ---- registry events during ensure()
\* C40: when _ensureNexus has returned and ensure() reads the children of the
\* nexus for the trim, the volume has a nexus, and ensure() does not end in
\* an unexpected error, whatever events were delivered while it awaited.
C40_TrimReadsNexus ==
  [][\A r \in ReqIds :
       (/\ reqs[r].pc \in {"createNexus", "removeChild", "addChild"}
        /\ reqs'[r].pc \in {"trim", "done"}
        /\ reqs'[r].result # "INTERNAL")
         => (nexus'.exists /\ reqs'[r].result # "UNKNOWN")]_vars

====
